---------------------------- MODULE Spec2Model ----------------------------
(***************************************************************************)
(* Cortex / Subvox: the short-term-memory (STM) lifecycle.                 *)
(*                                                                         *)
(*   subvox/stop_hook.py    the stop hook: extract the last exchange,      *)
(*                          push it on the STM buffer, ask the model what  *)
(*                          is memorable, store the parsed memorables      *)
(*   subvox/prompt_hook.py  the reminder reader                            *)
(*   cortex/main.py         the long-term store; publishes a confirmation  *)
(*                          after a successful store                       *)
(*                                                                         *)
(* Text is modelled as a sequence of one-character strings, so that        *)
(* strip, split, lower and startswith are computed as Python computes      *)
(* them.  The markers <memorables> and </memorables> are single symbols.   *)
(***************************************************************************)
EXTENDS Integers, Sequences, FiniteSets, TLC

\* ------------------------------------------------------------------ bounds

\* The stop hook is not started when the buffer already holds MaxBuf entries.
MaxBuf == 2

\* The long-term store accepts at most MaxMem store requests.
MaxMem == 2

\* The subscriber's inbox holds at most MaxInbox undelivered confirmations.
MaxInbox == 1

\* One Tick of the clock lets STM_TTL \div TimeSlices seconds pass.
TimeSlices == 2

\* ------------------------------------------------------- program constants

STM_MESSAGES_KEY == "stm:messages"

STM_MEMORABLES_KEY == "stm:memorables"

STM_TTL == 3600

\* ------------------------------------------------------------------- text

OPEN == "<memorables>"

CLOSE == "</memorables>"

NL == "\n"

\* The characters str.strip() removes.
Whitespace == {" ", NL}

\* str.lower(), on the letters the model uses.
LowerChar(c) ==
  CASE c = "N" -> "n"
    [] c = "O" -> "o"
    [] c = "E" -> "e"
    [] c = "A" -> "a"
    [] c = "T" -> "t"
    [] c = "H" -> "h"
    [] c = "I" -> "i"
    [] c = "G" -> "g"
    [] c = "B" -> "b"
    [] c = "L" -> "l"
    [] OTHER -> c

lower(s) == [i \in 1..Len(s) |-> LowerChar(s[i])]

RECURSIVE lstrip(_)
lstrip(s) ==
  IF s # <<>> /\ Head(s) \in Whitespace THEN lstrip(Tail(s)) ELSE s

RECURSIVE rstrip(_)
rstrip(s) ==
  IF s # <<>> /\ s[Len(s)] \in Whitespace
  THEN rstrip(SubSeq(s, 1, Len(s) - 1))
  ELSE s

strip(s) == rstrip(lstrip(s))

startswith(s, prefix) ==
  Len(s) >= Len(prefix) /\ SubSeq(s, 1, Len(prefix)) = prefix

\* str.split(sep) for a one-character separator: "" splits to [""].
RECURSIVE split(_, _)
split(s, sep) ==
  IF \E i \in 1..Len(s) : s[i] = sep
  THEN LET i == CHOOSE k \in 1..Len(s) :
                  s[k] = sep /\ \A j \in 1..(k - 1) : s[j] # sep
       IN  <<SubSeq(s, 1, i - 1)>> \o split(SubSeq(s, i + 1, Len(s)), sep)
  ELSE <<s>>

\* sep.join(parts)
RECURSIVE join(_, _)
join(sep, parts) ==
  IF parts = <<>> THEN <<>>
  ELSE IF Len(parts) = 1 THEN parts[1]
  ELSE parts[1] \o sep \o join(sep, Tail(parts))

RECURSIVE Flatten(_)
Flatten(ss) == IF ss = <<>> THEN <<>> ELSE Head(ss) \o Flatten(Tail(ss))

\* ------------------------------------------------------- parse_memorables

\* A line "starts with <" also when it starts with a marker symbol.
StartsWithLt(line) == line # <<>> /\ Head(line) \in {"<", OPEN, CLOSE}

\* ('', 'none', 'nothing notable', 'nothing notable.')
Sentinels ==
  { <<>>,
    <<"n","o","n","e">>,
    <<"n","o","t","h","i","n","g"," ","n","o","t","a","b","l","e">>,
    <<"n","o","t","h","i","n","g"," ","n","o","t","a","b","l","e",".">> }

\* re.search(r'<memorables>(.*?)</memorables>', response, re.DOTALL):
\* the leftmost opening marker that has a closing marker after it, and the
\* first closing marker after it.  <<>> when there is no match, else
\* <<group(1)>>.
MemorablesMatch(response) ==
  LET opens == {i \in 1..Len(response) :
                  response[i] = OPEN
                  /\ \E j \in (i + 1)..Len(response) : response[j] = CLOSE}
  IN  IF opens = {} THEN <<>>
      ELSE LET i == CHOOSE k \in opens : \A m \in opens : k <= m
               j == CHOOSE k \in (i + 1)..Len(response) :
                      response[k] = CLOSE
                      /\ \A m \in (i + 1)..(k - 1) : response[m] # CLOSE
           IN  <<SubSeq(response, i + 1, j - 1)>>

\* MemorablesOfLine that knows the "- " marker only.
MemorablesOfLine_DashOnly(rawline) ==
  LET line == strip(rawline)
  IN  IF startswith(line, <<"-", " ">>)
      THEN <<strip(SubSeq(line, 3, Len(line)))>>
      ELSE IF line # <<>> /\ ~StartsWithLt(line)
      THEN <<line>>
      ELSE <<>>

\* One pass of the "for line in content.split('\n')" loop: what the line
\* appends to memorables.
MemorablesOfLine(rawline) ==
  LET line == strip(rawline)
  IN  IF startswith(line, <<"-", " ">>) \/ startswith(line, <<"*", " ">>)
      THEN <<strip(SubSeq(line, 3, Len(line)))>>
      ELSE IF line # <<>> /\ ~StartsWithLt(line)
      THEN <<line>>
      ELSE <<>>

NonEmpty(m) == m # <<>>

\* parse_memorables that compares the content with the sentinels as it is
\* spelled.
parse_memorables_CaseSensitive(response) ==
  LET match == MemorablesMatch(response)
  IN  IF match = <<>> THEN <<>>
      ELSE LET content == strip(match[1])
           IN  IF content = <<>> \/ content \in Sentinels
               THEN <<>>
               ELSE LET lines == split(content, NL)
                        memorables ==
                          Flatten([i \in 1..Len(lines) |->
                                     MemorablesOfLine(lines[i])])
                    IN  SelectSeq(memorables, NonEmpty)

parse_memorables(response) ==
  LET match == MemorablesMatch(response)
  IN  IF match = <<>> THEN <<>>
      ELSE LET content == strip(match[1])
           IN  IF content = <<>> \/ lower(content) \in Sentinels
               THEN <<>>
               ELSE LET lines == split(content, NL)
                        memorables ==
                          Flatten([i \in 1..Len(lines) |->
                                     MemorablesOfLine(lines[i])])
                    IN  SelectSeq(memorables, NonEmpty)

\* ------------------------------------------------------------ transcript

\* A transcript line.  json: json.loads accepts it; obj: the value is a JSON
\* object; type: its "type"; message: its "message".
\* A message is [k, content] with k in "dict", "missing", "null", "other"
\* ("other": a value that is neither an object nor null).
\* A content is [k, text, items] with k in "str", "list", "missing", "null",
\* "num".  An item of a list content is [k, type, textk, text] with k in
\* "dict", "str", "other" and textk in "str", "missing", "null".

NoContent == [k |-> "missing", text |-> <<>>, items |-> <<>>]

StrContent(t) == [k |-> "str", text |-> t, items |-> <<>>]

ListContent(items) == [k |-> "list", text |-> <<>>, items |-> items]

NullContent == [k |-> "null", text |-> <<>>, items |-> <<>>]

TextBlock(t) == [k |-> "dict", type |-> "text", textk |-> "str", text |-> t]

NullTextBlock ==
  [k |-> "dict", type |-> "text", textk |-> "null", text |-> <<>>]

ToolResult ==
  [k |-> "dict", type |-> "tool_result", textk |-> "missing", text |-> <<>>]

ToolUse ==
  [k |-> "dict", type |-> "tool_use", textk |-> "missing", text |-> <<>>]

BareString(t) == [k |-> "str", type |-> "", textk |-> "str", text |-> t]

Event(type, content) ==
  [json |-> TRUE, obj |-> TRUE, type |-> type,
   message |-> [k |-> "dict", content |-> content]]

EventNoMessage(type) ==
  [json |-> TRUE, obj |-> TRUE, type |-> type,
   message |-> [k |-> "missing", content |-> NoContent]]

EventNullMessage(type) ==
  [json |-> TRUE, obj |-> TRUE, type |-> type,
   message |-> [k |-> "null", content |-> NoContent]]

\* An event whose message is a bare string.
EventBareMessage(type) ==
  [json |-> TRUE, obj |-> TRUE, type |-> type,
   message |-> [k |-> "other", content |-> NoContent]]

\* A line json.loads rejects.
MalformedLine ==
  [json |-> FALSE, obj |-> FALSE, type |-> "",
   message |-> [k |-> "missing", content |-> NoContent]]

\* A line that is valid JSON but not an object (a number, a list, null).
NonObjectLine ==
  [json |-> TRUE, obj |-> FALSE, type |-> "",
   message |-> [k |-> "missing", content |-> NoContent]]

NoExchange ==
  [k |-> "none", user_message |-> <<>>, assistant_messages |-> <<>>]

Raised ==
  [k |-> "raise", user_message |-> <<>>, assistant_messages |-> <<>>]

Exchange(user, assistant) ==
  [k |-> "exchange", user_message |-> user, assistant_messages |-> assistant]

\* Lines 126-141: the text of one user entry.  <<text>>, or <<>> when the
\* code raises (a text block whose text is null reaches "\n".join).
UserTextParts(items) ==
  Flatten([i \in 1..Len(items) |->
    IF items[i].k = "dict"
    THEN IF items[i].type = "text"
         THEN <<IF items[i].textk = "missing" THEN <<>> ELSE items[i].text>>
         ELSE <<>>
    ELSE IF items[i].k = "str" THEN <<items[i].text>>
    ELSE <<>>])

UserTextRaises(content) ==
  /\ content.k = "list"
  /\ \E i \in 1..Len(content.items) :
       /\ content.items[i].k = "dict"
       /\ content.items[i].type = "text"
       /\ content.items[i].textk = "null"

ExtractedText(content) ==
  IF content.k = "str" THEN content.text
  ELSE IF content.k = "list" THEN join(<<NL>>, UserTextParts(content.items))
  ELSE <<>>

\* ScanBackwards without the "if extracted_text.strip()" test: any user
\* entry is accepted.
RECURSIVE ScanBackwards_AcceptBlank(_, _)
ScanBackwards_AcceptBlank(lines, i) ==
  IF i = 0 THEN [k |-> "none", index |-> 0, text |-> <<>>]
  ELSE LET entry == lines[i]
           msg == entry.message
           content == IF msg.k = "dict" THEN msg.content ELSE NoContent
       IN  IF ~entry.json THEN ScanBackwards_AcceptBlank(lines, i - 1)
           ELSE IF ~entry.obj THEN [k |-> "raise", index |-> i, text |-> <<>>]
           ELSE IF entry.type # "user"
           THEN ScanBackwards_AcceptBlank(lines, i - 1)
           ELSE IF msg.k \in {"null", "other"} \/ UserTextRaises(content)
           THEN [k |-> "raise", index |-> i, text |-> <<>>]
           ELSE [k |-> "found", index |-> i, text |-> ExtractedText(content)]

\* ScanBackwards that gives up at the first user entry without text instead
\* of scanning on.
RECURSIVE ScanBackwards_StopAtBlank(_, _)
ScanBackwards_StopAtBlank(lines, i) ==
  IF i = 0 THEN [k |-> "none", index |-> 0, text |-> <<>>]
  ELSE LET entry == lines[i]
           msg == entry.message
           content == IF msg.k = "dict" THEN msg.content ELSE NoContent
       IN  IF ~entry.json THEN ScanBackwards_StopAtBlank(lines, i - 1)
           ELSE IF ~entry.obj THEN [k |-> "raise", index |-> i, text |-> <<>>]
           ELSE IF entry.type # "user"
           THEN ScanBackwards_StopAtBlank(lines, i - 1)
           ELSE IF msg.k \in {"null", "other"} \/ UserTextRaises(content)
           THEN [k |-> "raise", index |-> i, text |-> <<>>]
           ELSE IF strip(ExtractedText(content)) # <<>>
           THEN [k |-> "found", index |-> i, text |-> ExtractedText(content)]
           ELSE [k |-> "none", index |-> 0, text |-> <<>>]

\* Lines 108-158: the backward scan from line i.  The result is
\* [k |-> "found", index, text], [k |-> "none"] or [k |-> "raise"].
RECURSIVE ScanBackwards(_, _)
ScanBackwards(lines, i) ==
  IF i = 0 THEN [k |-> "none", index |-> 0, text |-> <<>>]
  ELSE LET entry == lines[i]
           msg == entry.message
           content == IF msg.k = "dict" THEN msg.content ELSE NoContent
       IN  IF ~entry.json THEN ScanBackwards(lines, i - 1)
           ELSE IF ~entry.obj THEN [k |-> "raise", index |-> i, text |-> <<>>]
           ELSE IF entry.type # "user" THEN ScanBackwards(lines, i - 1)
           ELSE IF msg.k \in {"null", "other"} \/ UserTextRaises(content)
           THEN [k |-> "raise", index |-> i, text |-> <<>>]
           ELSE IF strip(ExtractedText(content)) # <<>>
           THEN [k |-> "found", index |-> i, text |-> ExtractedText(content)]
           ELSE ScanBackwards(lines, i - 1)

\* AssistantTexts without the test of the block's type.
AssistantTexts_AnyBlock(content) ==
  IF content.k # "list" THEN <<>>
  ELSE SelectSeq(
         Flatten([i \in 1..Len(content.items) |->
           IF content.items[i].k = "dict"
           THEN <<IF content.items[i].textk = "missing" THEN <<>>
                  ELSE strip(content.items[i].text)>>
           ELSE <<>>]),
         NonEmpty)

\* Lines 191-196: the text blocks of one assistant entry's content.
AssistantTexts(content) ==
  IF content.k # "list" THEN <<>>
  ELSE SelectSeq(
         Flatten([i \in 1..Len(content.items) |->
           IF content.items[i].k = "dict" /\ content.items[i].type = "text"
           THEN <<IF content.items[i].textk = "missing" THEN <<>>
                  ELSE strip(content.items[i].text)>>
           ELSE <<>>]),
         NonEmpty)

AssistantRaises(entry) ==
  \/ entry.message.k \in {"null", "other"}
  \/ /\ entry.message.k = "dict"
     /\ \/ entry.message.content.k \in {"null", "num"}
        \/ /\ entry.message.content.k = "list"
           /\ \E i \in 1..Len(entry.message.content.items) :
                /\ entry.message.content.items[i].k = "dict"
                /\ entry.message.content.items[i].type = "text"
                /\ entry.message.content.items[i].textk = "null"

\* CollectForward that stops collecting at a line that is no JSON.
RECURSIVE CollectForward_BreakOnMalformed(_, _)
CollectForward_BreakOnMalformed(lines, i) ==
  IF i > Len(lines) THEN << <<>> >>
  ELSE LET entry == lines[i]
           rest == CollectForward_BreakOnMalformed(lines, i + 1)
       IN  IF ~entry.json THEN << <<>> >>
           ELSE IF ~entry.obj THEN <<>>
           ELSE IF entry.type # "assistant" THEN rest
           ELSE IF AssistantRaises(entry) \/ rest = <<>> THEN <<>>
           ELSE LET content == IF entry.message.k = "dict"
                               THEN entry.message.content ELSE NoContent
                IN  <<AssistantTexts(content) \o rest[1]>>

\* CollectForward that ends at the next user event.
RECURSIVE CollectForward_StopAtUser(_, _)
CollectForward_StopAtUser(lines, i) ==
  IF i > Len(lines) THEN << <<>> >>
  ELSE LET entry == lines[i]
           rest == CollectForward_StopAtUser(lines, i + 1)
       IN  IF ~entry.json THEN rest
           ELSE IF ~entry.obj THEN <<>>
           ELSE IF entry.type = "user" THEN << <<>> >>
           ELSE IF entry.type # "assistant" THEN rest
           ELSE IF AssistantRaises(entry) \/ rest = <<>> THEN <<>>
           ELSE LET content == IF entry.message.k = "dict"
                               THEN entry.message.content ELSE NoContent
                IN  <<AssistantTexts(content) \o rest[1]>>

\* Lines 177-196: the forward scan from line i to the end of the file.
\* <<messages>>, or <<>> when the code raises.
RECURSIVE CollectForward(_, _)
CollectForward(lines, i) ==
  IF i > Len(lines) THEN << <<>> >>
  ELSE LET entry == lines[i]
           rest == CollectForward(lines, i + 1)
       IN  IF ~entry.json THEN rest
           ELSE IF ~entry.obj THEN <<>>
           ELSE IF entry.type # "assistant" THEN rest
           ELSE IF AssistantRaises(entry) \/ rest = <<>> THEN <<>>
           ELSE LET content == IF entry.message.k = "dict"
                               THEN entry.message.content ELSE NoContent
                IN  <<AssistantTexts(content) \o rest[1]>>

\* parse_transcript_backwards that returns None when no assistant text
\* follows the user message.
parse_transcript_backwards_NeedsAssistant(file) ==
  IF ~file.exists THEN NoExchange
  ELSE LET back == ScanBackwards(file.lines, Len(file.lines))
       IN  IF back.k = "raise" THEN Raised
           ELSE IF back.k = "none" THEN NoExchange
           ELSE LET fwd == CollectForward(file.lines, back.index + 1)
                IN  IF fwd = <<>> THEN Raised
                    ELSE IF fwd[1] = <<>> THEN NoExchange
                    ELSE Exchange(back.text, fwd[1])

\* A transcript file is [exists, lines].
parse_transcript_backwards(file) ==
  IF ~file.exists THEN NoExchange
  ELSE LET back == ScanBackwards(file.lines, Len(file.lines))
       IN  IF back.k = "raise" THEN Raised
           ELSE IF back.k = "none" THEN NoExchange
           ELSE LET fwd == CollectForward(file.lines, back.index + 1)
                IN  IF fwd = <<>> THEN Raised
                    ELSE Exchange(back.text, fwd[1])

\* ------------------------------------------------------------------ state

VARIABLES
  stm_messages,        \* the list at STM_MESSAGES_KEY, head first (<<>>: no key)
  stm_messages_ttl,    \* its TTL in seconds; -1: no expiry; -2: no key
  stm_memorables,      \* the string at STM_MEMORABLES_KEY as <<value>>; <<>>: no key
  stm_memorables_ttl,  \* its TTL, as above
  hook,                \* the stop-hook invocations: hook[p] is p's local state
  idle_time,           \* seconds since the last append's TTL reset (capped)
  last_expiry,         \* idle_time when the buffer key last expired; -1: never
  db_memories,         \* the rows of cortex.memories, in insertion order
  redis_client,        \* the service's Redis client: TRUE connected, FALSE None
  last_store,          \* the latest /store request: its session, status, id, events
  listening,           \* a subscriber listens on the confirmation channel
  inbox,               \* confirmations delivered to the subscriber, not yet handled
  prompt,              \* the latest reminder-reader invocation: input, exit, output
  call                 \* the latest direct call of a function: fn, input, output

vars ==
  <<stm_messages, stm_messages_ttl, stm_memorables, stm_memorables_ttl, hook,
    idle_time, last_expiry, db_memories, redis_client, last_store, listening,
    inbox, prompt, call>>

stm_vars ==
  <<stm_messages, stm_messages_ttl, stm_memorables, stm_memorables_ttl>>

cortex_vars ==
  <<db_memories, redis_client, last_store, listening, inbox>>

\* The concurrent stop-hook invocations.
Hooks == {1}

\* ------------------------------------------------------------- the inputs

hi == <<"h", "i">>

yo == <<"y", "o">>

ok == <<"o", "k">>

File(lines) == [exists |-> TRUE, lines |-> lines]

MissingFile == [exists |-> FALSE, lines |-> <<>>]

\* user "hi", assistant "ok".
TranscriptSimple ==
  File(<<Event("user", StrContent(hi)),
         Event("assistant", ListContent(<<TextBlock(ok)>>))>>)

\* user "yo", a tool call and its result, a malformed line, then text.
TranscriptTools ==
  File(<<Event("user", ListContent(<<TextBlock(yo)>>)),
         Event("assistant", ListContent(<<ToolUse>>)),
         Event("user", ListContent(<<ToolResult>>)),
         MalformedLine,
         Event("assistant", ListContent(<<TextBlock(<<" ">> \o ok)>>))>>)

\* Only tool results and blank text on the user side.
TranscriptNoUserText ==
  File(<<Event("user", ListContent(<<ToolResult>>)),
         Event("assistant", ListContent(<<TextBlock(ok)>>)),
         Event("user", StrContent(<<" ", NL>>)),
         EventNoMessage("user")>>)

TranscriptEmpty == File(<<>>)

\* A line that is valid JSON and no object.
TranscriptNonObject ==
  File(<<Event("user", StrContent(hi)), NonObjectLine>>)

\* The hook input on stdin: json: it is valid JSON; has_path: it carries a
\* non-empty transcript_path; file: the file at that path.
HookInputs ==
  {[json |-> FALSE, has_path |-> FALSE, file |-> MissingFile],
   [json |-> TRUE, has_path |-> FALSE, file |-> MissingFile]}
  \cup {[json |-> TRUE, has_path |-> TRUE, file |-> f] :
          f \in {MissingFile, TranscriptSimple, TranscriptTools,
                 TranscriptNoUserText, TranscriptEmpty, TranscriptNonObject}}

\* What the model may answer.
Responses ==
  { <<"r", OPEN, NL, "-", " ", "a", NL, "*", " ", "b", NL, CLOSE, NL>>,
    <<OPEN, "b", CLOSE>>,
    <<OPEN, "N", "o", "n", "e", CLOSE>>,
    <<OPEN, " ", CLOSE>>,
    <<"o", "k">> }

\* How the model call may fail.
OlmoFailures == {"timeout", "connect_error", "http_status"}

\* ------------------------------------------------------------ the stop hook

json_dumps(exchange) ==
  [valid |-> TRUE,
   user_message |-> exchange.user_message,
   assistant_messages |-> exchange.assistant_messages]

RECURSIVE reversed(_)
reversed(s) == IF s = <<>> THEN <<>> ELSE reversed(Tail(s)) \o <<Head(s)>>

format_exchange(exchange) ==
  join(<<NL, NL>>,
       <<(<<"Jeffery: ">> \o exchange.user_message)>>
       \o [i \in 1..Len(exchange.assistant_messages) |->
             <<"Alpha: ">> \o exchange.assistant_messages[i]])

\* build_conversation_from_stm without reversed(): newest first.
build_conversation_from_stm_NewestFirst(existing) ==
  LET parts == Flatten([i \in 1..Len(existing) |->
                 IF existing[i].valid
                 THEN <<format_exchange(existing[i])>>
                 ELSE <<>>])
  IN  join(<<NL, NL, "-", "-", "-", NL, NL>>, parts)

\* build_conversation_from_stm on what lrange returned.
build_conversation_from_stm(existing) ==
  LET chronological == reversed(existing)
      parts == Flatten([i \in 1..Len(chronological) |->
                 IF chronological[i].valid
                 THEN <<format_exchange(chronological[i])>>
                 ELSE <<>>])
  IN  join(<<NL, NL, "-", "-", "-", NL, NL>>, parts)

\* "\n".join(f"- {m}" for m in parsed_memorables)
clean_memorables(parsed) ==
  join(<<NL>>, [i \in 1..Len(parsed) |-> <<"-", " ">> \o parsed[i]])

NoInput == [json |-> FALSE, has_path |-> FALSE, file |-> MissingFile]

IdleHook ==
  [pc |-> "idle", exit |-> "", input |-> NoInput, exchange |-> NoExchange,
   conversation |-> <<>>,
   existing_memorables |-> <<>>, parsed_memorables |-> <<>>,
   commands |-> <<>>, olmo_calls |-> 0]

\* The invocation ends: exit tells how ("raised": an unhandled exception).
Finish(p, how) ==
  [hook[p] EXCEPT !.pc = "done", !.exit = how, !.conversation = <<>>,
                  !.existing_memorables = <<>>]

\* A store command that finds the store unreachable raises
\* redis.ConnectionError, which main does not catch.
StoreUnreachable(p) ==
  /\ hook' = [hook EXCEPT ![p] = [Finish(p, "raised") EXCEPT
                !.commands = @ \o <<"unreachable">>]]
  /\ UNCHANGED <<stm_vars, idle_time, last_expiry, cortex_vars, prompt, call>>

\* main, lines 294-322: read stdin, parse the transcript, redis.from_url
\* (which opens no connection).
HookStart(p, input) ==
  /\ hook[p].pc \in {"idle", "done"}
  /\ Len(stm_messages) < MaxBuf
  /\ LET parsed == parse_transcript_backwards(input.file)
         fresh == [IdleHook EXCEPT !.pc = "done", !.input = input]
     IN  hook' = [hook EXCEPT ![p] =
           IF ~input.json THEN [fresh EXCEPT !.exit = "invalid_json"]
           ELSE IF ~input.has_path
           THEN [fresh EXCEPT !.exit = "no_transcript_path"]
           ELSE IF parsed.k = "raise" THEN [fresh EXCEPT !.exit = "raised"]
           ELSE IF parsed.k = "none" THEN [fresh EXCEPT !.exit = "no_exchange"]
           ELSE [IdleHook EXCEPT !.pc = "lpush", !.input = input,
                                 !.exchange = parsed]]
  /\ UNCHANGED <<stm_vars, idle_time, last_expiry, cortex_vars, prompt, call>>

\* Lpush as a SET of a one-entry list: what was buffered is lost.
Lpush_Overwrite(p) ==
  /\ stm_messages' = <<json_dumps(hook[p].exchange)>>
  /\ stm_messages_ttl' =
       IF stm_messages = <<>> THEN -1 ELSE stm_messages_ttl
  /\ hook' = [hook EXCEPT ![p].pc = "expire",
                          ![p].commands = @ \o <<"lpush">>]
  /\ UNCHANGED <<stm_memorables, stm_memorables_ttl, idle_time, last_expiry,
                 cortex_vars, prompt, call>>

\* Lpush that skips an exchange equal to the newest one buffered.
Lpush_Dedup(p) ==
  /\ stm_messages' =
       IF stm_messages # <<>>
          /\ Head(stm_messages) = json_dumps(hook[p].exchange)
       THEN stm_messages
       ELSE <<json_dumps(hook[p].exchange)>> \o stm_messages
  /\ stm_messages_ttl' =
       IF stm_messages = <<>> THEN -1 ELSE stm_messages_ttl
  /\ hook' = [hook EXCEPT ![p].pc = "expire",
                          ![p].commands = @ \o <<"lpush">>]
  /\ UNCHANGED <<stm_memorables, stm_memorables_ttl, idle_time, last_expiry,
                 cortex_vars, prompt, call>>

\* Line 325: r.lpush(STM_MESSAGES_KEY, json.dumps(exchange)).  A new key has
\* no expiry; an existing key keeps its TTL.
Lpush(p) ==
  /\ stm_messages' = <<json_dumps(hook[p].exchange)>> \o stm_messages
  /\ stm_messages_ttl' =
       IF stm_messages = <<>> THEN -1 ELSE stm_messages_ttl
  /\ hook' = [hook EXCEPT ![p].pc = "expire",
                          ![p].commands = @ \o <<"lpush">>]
  /\ UNCHANGED <<stm_memorables, stm_memorables_ttl, idle_time, last_expiry,
                 cortex_vars, prompt, call>>

HookLpush(p, up) ==
  /\ hook[p].pc = "lpush"
  /\ IF up THEN Lpush(p) ELSE StoreUnreachable(p)

\* Expire with a TTL of zero seconds, which removes the key at once.
Expire_Immediately(p) ==
  /\ stm_messages' = <<>>
  /\ stm_messages_ttl' = -2
  /\ idle_time' = IF stm_messages = <<>> THEN idle_time ELSE 0
  /\ hook' = [hook EXCEPT ![p].pc = "lrange",
                          ![p].commands = @ \o <<"expire">>]
  /\ UNCHANGED <<stm_memorables, stm_memorables_ttl,
                 last_expiry, cortex_vars, prompt, call>>

\* Expire that sets the TTL only on a key that has none (no sliding expiry).
Expire_OnlyNewKey(p) ==
  /\ stm_messages_ttl' =
       IF stm_messages = <<>> THEN -2
       ELSE IF stm_messages_ttl = -1 THEN STM_TTL ELSE stm_messages_ttl
  /\ idle_time' = IF stm_messages = <<>> THEN idle_time ELSE 0
  /\ hook' = [hook EXCEPT ![p].pc = "lrange",
                          ![p].commands = @ \o <<"expire">>]
  /\ UNCHANGED <<stm_messages, stm_memorables, stm_memorables_ttl,
                 last_expiry, cortex_vars, prompt, call>>

\* Line 326: r.expire(STM_MESSAGES_KEY, STM_TTL); nothing when the key is gone.
Expire(p) ==
  /\ stm_messages_ttl' = IF stm_messages = <<>> THEN -2 ELSE STM_TTL
  /\ idle_time' = IF stm_messages = <<>> THEN idle_time ELSE 0
  /\ hook' = [hook EXCEPT ![p].pc = "lrange",
                          ![p].commands = @ \o <<"expire">>]
  /\ UNCHANGED <<stm_messages, stm_memorables, stm_memorables_ttl,
                 last_expiry, cortex_vars, prompt, call>>

HookExpire(p, up) ==
  /\ hook[p].pc = "expire"
  /\ IF up THEN Expire(p) ELSE StoreUnreachable(p)

\* HookLrange that reads the entries of its own session only.
HookLrange_OwnSession(p, up) ==
  /\ hook[p].pc = "lrange"
  /\ IF up
     THEN /\ hook' = [hook EXCEPT
                ![p].pc = "get",
                ![p].conversation =
                  build_conversation_from_stm(
                    SelectSeq(stm_messages,
                              LAMBDA e : e = json_dumps(hook[p].exchange))),
                ![p].commands = @ \o <<"lrange">>]
          /\ UNCHANGED <<stm_vars, idle_time, last_expiry, cortex_vars, prompt, call>>
     ELSE StoreUnreachable(p)

\* HookLrange that adds the current exchange to what it read.
HookLrange_AddsCurrent(p, up) ==
  /\ hook[p].pc = "lrange"
  /\ IF up
     THEN /\ hook' = [hook EXCEPT
                ![p].pc = "get",
                ![p].conversation =
                  build_conversation_from_stm(
                    <<json_dumps(hook[p].exchange)>> \o stm_messages),
                ![p].commands = @ \o <<"lrange">>]
          /\ UNCHANGED <<stm_vars, idle_time, last_expiry, cortex_vars, prompt, call>>
     ELSE StoreUnreachable(p)

\* Line 329: build_conversation_from_stm(r), whose lrange reads the list.
HookLrange(p, up) ==
  /\ hook[p].pc = "lrange"
  /\ IF up
     THEN /\ hook' = [hook EXCEPT
                ![p].pc = "get",
                ![p].conversation = build_conversation_from_stm(stm_messages),
                ![p].commands = @ \o <<"lrange">>]
          /\ UNCHANGED <<stm_vars, idle_time, last_expiry, cortex_vars, prompt, call>>
     ELSE StoreUnreachable(p)

\* Lines 332-335: r.get(STM_MEMORABLES_KEY); "" when absent or empty.
HookGet(p, up) ==
  /\ hook[p].pc = "get"
  /\ IF up
     THEN /\ hook' = [hook EXCEPT
                ![p].pc = "template",
                ![p].existing_memorables =
                  IF stm_memorables = <<>> THEN <<>> ELSE stm_memorables[1],
                ![p].commands = @ \o <<"get">>]
          /\ UNCHANGED <<stm_vars, idle_time, last_expiry, cortex_vars, prompt, call>>
     ELSE StoreUnreachable(p)

\* HookLoadTemplate without the try/except: FileNotFoundError leaves main.
HookLoadTemplate_Unhandled(p, found) ==
  /\ hook[p].pc = "template"
  /\ hook' = [hook EXCEPT ![p] =
       IF found THEN [hook[p] EXCEPT !.pc = "ask"]
       ELSE Finish(p, "raised")]
  /\ UNCHANGED <<stm_vars, idle_time, last_expiry, cortex_vars, prompt, call>>

\* Lines 338-342: load_prompt_template; FileNotFoundError ends the invocation.
HookLoadTemplate(p, found) ==
  /\ hook[p].pc = "template"
  /\ hook' = [hook EXCEPT ![p] =
       IF found THEN [hook[p] EXCEPT !.pc = "ask"]
       ELSE Finish(p, "no_template")]
  /\ UNCHANGED <<stm_vars, idle_time, last_expiry, cortex_vars, prompt, call>>

\* ask_olmo, lines 242-289: one httpx.post; the stripped "response" field.
ask_olmo(reply) ==
  IF reply.ok THEN [ok |-> TRUE, result |-> strip(reply.response)]
  ELSE [ok |-> FALSE, result |-> <<>>]

\* AskOlmo with one retry of a failed call.
AskOlmo_Retry(p, reply) ==
  LET answer == ask_olmo(reply)
      called == [hook[p] EXCEPT !.olmo_calls = @ + 1]
  IN  /\ hook' = [hook EXCEPT ![p] =
            IF answer.ok
            THEN [called EXCEPT
                    !.pc = "llen", !.conversation = <<>>,
                    !.existing_memorables = <<>>,
                    !.parsed_memorables = parse_memorables(answer.result)]
            ELSE IF hook[p].olmo_calls = 0 THEN called
            ELSE [Finish(p, "olmo_failed") EXCEPT !.olmo_calls = @ + 1]]
      /\ UNCHANGED <<stm_vars, idle_time, last_expiry, cortex_vars, prompt, call>>

\* Lines 345-352: the model call, any exception of which ends the
\* invocation, and parse_memorables on its answer.
AskOlmo(p, reply) ==
  LET answer == ask_olmo(reply)
      called == [hook[p] EXCEPT !.olmo_calls = @ + 1]
  IN  /\ hook' = [hook EXCEPT ![p] =
            IF answer.ok
            THEN [called EXCEPT
                    !.pc = "llen", !.conversation = <<>>,
                    !.existing_memorables = <<>>,
                    !.parsed_memorables = parse_memorables(answer.result)]
            ELSE [Finish(p, "olmo_failed") EXCEPT !.olmo_calls = @ + 1]]
      /\ UNCHANGED <<stm_vars, idle_time, last_expiry, cortex_vars, prompt, call>>

HookAskOlmo(p, reply) ==
  /\ hook[p].pc = "ask"
  /\ AskOlmo(p, reply)

\* Line 355: r.llen(STM_MESSAGES_KEY), for the log line.
HookLlen(p, up) ==
  /\ hook[p].pc = "llen"
  /\ IF up
     THEN /\ hook' = [hook EXCEPT ![p].pc = "set",
                                  ![p].commands = @ \o <<"llen">>]
          /\ UNCHANGED <<stm_vars, idle_time, last_expiry, cortex_vars, prompt, call>>
     ELSE StoreUnreachable(p)

\* SetMemorables that writes the blob only next to a buffer that holds an
\* entry.
SetMemorables_OnlyIfBuffered(p) ==
  /\ stm_memorables' =
       IF stm_messages = <<>> THEN stm_memorables
       ELSE <<clean_memorables(hook[p].parsed_memorables)>>
  /\ stm_memorables_ttl' =
       IF stm_messages = <<>> THEN stm_memorables_ttl ELSE STM_TTL
  /\ hook' = [hook EXCEPT ![p] = [Finish(p, "updated") EXCEPT
                !.commands = @ \o <<"set">>]]
  /\ UNCHANGED <<stm_messages, stm_messages_ttl, idle_time, last_expiry,
                 cortex_vars, prompt, call>>

\* SetMemorables that also deletes the buffer (flush on detection).
SetMemorables_Flush(p) ==
  /\ stm_memorables' = <<clean_memorables(hook[p].parsed_memorables)>>
  /\ stm_memorables_ttl' = STM_TTL
  /\ stm_messages' = <<>>
  /\ stm_messages_ttl' = -2
  /\ hook' = [hook EXCEPT ![p] = [Finish(p, "updated") EXCEPT
                !.commands = @ \o <<"set", "delete">>]]
  /\ UNCHANGED <<idle_time, last_expiry, cortex_vars, prompt, call>>

\* SetMemorables that appends the new lines to the blob it finds.
SetMemorables_Append(p) ==
  /\ stm_memorables' =
       IF stm_memorables = <<>>
       THEN <<clean_memorables(hook[p].parsed_memorables)>>
       ELSE <<stm_memorables[1] \o <<NL>>
                \o clean_memorables(hook[p].parsed_memorables)>>
  /\ stm_memorables_ttl' = STM_TTL
  /\ hook' = [hook EXCEPT ![p] = [Finish(p, "updated") EXCEPT
                !.commands = @ \o <<"set">>]]
  /\ UNCHANGED <<stm_messages, stm_messages_ttl, idle_time, last_expiry,
                 cortex_vars, prompt, call>>

\* Lines 366-371 with memorables parsed:
\* r.set(STM_MEMORABLES_KEY, clean_memorables, ex=STM_TTL).
SetMemorables(p) ==
  /\ stm_memorables' = <<clean_memorables(hook[p].parsed_memorables)>>
  /\ stm_memorables_ttl' = STM_TTL
  /\ hook' = [hook EXCEPT ![p] = [Finish(p, "updated") EXCEPT
                !.commands = @ \o <<"set">>]]
  /\ UNCHANGED <<stm_messages, stm_messages_ttl, idle_time, last_expiry,
                 cortex_vars, prompt, call>>

\* NoMemorables that deletes the blob when nothing was parsed.
NoMemorables_Delete(p) ==
  /\ stm_memorables' = <<>>
  /\ stm_memorables_ttl' = -2
  /\ hook' = [hook EXCEPT ![p] = [Finish(p, "no_memorables") EXCEPT
                !.commands = @ \o <<"delete">>]]
  /\ UNCHANGED <<stm_messages, stm_messages_ttl, idle_time, last_expiry,
                 cortex_vars, prompt, call>>

\* Lines 366-371 with nothing parsed: only a log line.
NoMemorables(p) ==
  /\ hook' = [hook EXCEPT ![p] = Finish(p, "no_memorables")]
  /\ UNCHANGED <<stm_vars, idle_time, last_expiry, cortex_vars, prompt, call>>

HookStoreMemorables(p, up) ==
  /\ hook[p].pc = "set"
  /\ IF hook[p].parsed_memorables # <<>>
     THEN IF up THEN SetMemorables(p) ELSE StoreUnreachable(p)
     ELSE up /\ NoMemorables(p)

\* ----------------------------------------------------------------- time

\* The seconds one Tick lets pass.
TickSeconds == STM_TTL \div TimeSlices

\* A key's TTL after TickSeconds: -2 when the key expires.
Aged(ttl) ==
  IF ttl <= 0 THEN ttl
  ELSE IF ttl - TickSeconds > 0 THEN ttl - TickSeconds ELSE -2

Min(a, b) == IF a <= b THEN a ELSE b

\* Time passes; Redis removes the keys whose TTL has run out.
Tick ==
  /\ stm_messages_ttl > 0 \/ stm_memorables_ttl > 0
  /\ stm_messages_ttl' = Aged(stm_messages_ttl)
  /\ stm_messages' = IF Aged(stm_messages_ttl) = -2 THEN <<>> ELSE stm_messages
  /\ stm_memorables_ttl' = Aged(stm_memorables_ttl)
  /\ stm_memorables' =
       IF Aged(stm_memorables_ttl) = -2 THEN <<>> ELSE stm_memorables
  /\ idle_time' =
       IF Aged(stm_messages_ttl) = -2 THEN 0
       ELSE Min(idle_time + TickSeconds, STM_TTL)
  /\ last_expiry' =
       IF stm_messages_ttl > 0 /\ Aged(stm_messages_ttl) = -2
       THEN Min(idle_time + TickSeconds, STM_TTL)
       ELSE last_expiry
  /\ UNCHANGED <<hook, cortex_vars, prompt, call>>

\* ------------------------------------------------------- the long-term store

\* The session ids a /store request may carry; "": no X-Session-ID header.
SessionIds == {"", "s1", "s2"}

\* The contents a /store request may carry.
StoreContents == {"m1", "m2"}

\* The session whose channel the subscriber listens on.
SubscriberSession == "s1"

\* CORTEX_STORED_CHANNEL.format(session_id=x_session_id)
CORTEX_STORED_CHANNEL(session_id) == <<"cortex:stored:", session_id>>

\* lifespan, lines 57-65: the client is kept only when REDIS_URL is set and
\* the ping succeeds.
lifespan(redis_url_set, ping_ok) == redis_url_set /\ ping_ok

\* The id the database gives the next row.
NextId == Len(db_memories) + 1

\* StoreEvents that publishes whether or not the request names a session.
StoreEvents_PublishWithoutSession(session_id, embed_ok, insert_ok, publish_ok) ==
  IF ~embed_ok
  THEN <<[op |-> "embed_failed", id |-> 0, arg |-> ""],
         [op |-> "http", id |-> 0, arg |-> "503"]>>
  ELSE IF ~insert_ok
  THEN <<[op |-> "embed", id |-> 0, arg |-> ""],
         [op |-> "insert_failed", id |-> 0, arg |-> ""],
         [op |-> "http", id |-> 0, arg |-> "500"]>>
  ELSE <<[op |-> "embed", id |-> 0, arg |-> ""],
         [op |-> "insert", id |-> NextId, arg |-> ""]>>
       \o (IF redis_client
           THEN <<[op |-> IF publish_ok THEN "publish" ELSE "publish_failed",
                   id |-> NextId, arg |-> session_id]>>
           ELSE <<>>)
       \o <<[op |-> "http", id |-> NextId, arg |-> "201"]>>

\* StoreEvents with the publish ahead of the insert, whatever the insert does.
StoreEvents_PublishFirst(session_id, embed_ok, insert_ok, publish_ok) ==
  IF ~embed_ok
  THEN <<[op |-> "embed_failed", id |-> 0, arg |-> ""],
         [op |-> "http", id |-> 0, arg |-> "503"]>>
  ELSE <<[op |-> "embed", id |-> 0, arg |-> ""]>>
       \o (IF redis_client /\ session_id # ""
           THEN <<[op |-> IF publish_ok THEN "publish" ELSE "publish_failed",
                   id |-> NextId, arg |-> session_id]>>
           ELSE <<>>)
       \o (IF insert_ok
           THEN <<[op |-> "insert", id |-> NextId, arg |-> ""],
                  [op |-> "http", id |-> NextId, arg |-> "201"]>>
           ELSE <<[op |-> "insert_failed", id |-> 0, arg |-> ""],
                  [op |-> "http", id |-> 0, arg |-> "500"]>>)

\* StoreEvents with a failed publish failing the request after the insert.
StoreEvents_PublishFatal(session_id, embed_ok, insert_ok, publish_ok) ==
  IF ~embed_ok
  THEN <<[op |-> "embed_failed", id |-> 0, arg |-> ""],
         [op |-> "http", id |-> 0, arg |-> "503"]>>
  ELSE IF ~insert_ok
  THEN <<[op |-> "embed", id |-> 0, arg |-> ""],
         [op |-> "insert_failed", id |-> 0, arg |-> ""],
         [op |-> "http", id |-> 0, arg |-> "500"]>>
  ELSE IF redis_client /\ session_id # "" /\ ~publish_ok
  THEN <<[op |-> "embed", id |-> 0, arg |-> ""],
         [op |-> "insert", id |-> NextId, arg |-> ""],
         [op |-> "publish_failed", id |-> NextId, arg |-> session_id],
         [op |-> "http", id |-> 0, arg |-> "500"]>>
  ELSE <<[op |-> "embed", id |-> 0, arg |-> ""],
         [op |-> "insert", id |-> NextId, arg |-> ""]>>
       \o (IF redis_client /\ session_id # ""
           THEN <<[op |-> "publish", id |-> NextId, arg |-> session_id]>>
           ELSE <<>>)
       \o <<[op |-> "http", id |-> NextId, arg |-> "201"]>>

\* store_memory, lines 102-126, as the events of one request in the order
\* the handler produces them.
StoreEvents(session_id, embed_ok, insert_ok, publish_ok) ==
  IF ~embed_ok
  THEN <<[op |-> "embed_failed", id |-> 0, arg |-> ""],
         [op |-> "http", id |-> 0, arg |-> "503"]>>
  ELSE IF ~insert_ok
  THEN <<[op |-> "embed", id |-> 0, arg |-> ""],
         [op |-> "insert_failed", id |-> 0, arg |-> ""],
         [op |-> "http", id |-> 0, arg |-> "500"]>>
  ELSE <<[op |-> "embed", id |-> 0, arg |-> ""],
         [op |-> "insert", id |-> NextId, arg |-> ""]>>
       \o (IF redis_client /\ session_id # ""
           THEN <<[op |-> IF publish_ok THEN "publish" ELSE "publish_failed",
                   id |-> NextId, arg |-> session_id]>>
           ELSE <<>>)
       \o <<[op |-> "http", id |-> NextId, arg |-> "201"]>>

EventsWithOp(events, op) ==
  SelectSeq(events, LAMBDA e : e.op = op)

\* POST /store: the whole handler.  A row is inserted for every insert
\* event; a publish reaches the subscriber when one listens on its channel.
StoreMemory(content, session_id, embed_ok, insert_ok, publish_ok) ==
  LET events == StoreEvents(session_id, embed_ok, insert_ok, publish_ok)
      inserts == EventsWithOp(events, "insert")
      publishes == EventsWithOp(events, "publish")
      delivered ==
        SelectSeq(publishes,
                  LAMBDA e : listening /\ CORTEX_STORED_CHANNEL(e.arg)
                               = CORTEX_STORED_CHANNEL(SubscriberSession))
  IN  /\ Len(db_memories) < MaxMem
      /\ Len(inbox) < MaxInbox
      /\ db_memories' = db_memories
           \o [i \in 1..Len(inserts) |->
                 [id |-> inserts[i].id, content |-> content,
                  forgotten |-> FALSE]]
      /\ inbox' = inbox
           \o [i \in 1..Len(delivered) |->
                 [channel |-> CORTEX_STORED_CHANNEL(delivered[i].arg),
                  message |-> delivered[i].id]]
      /\ last_store' = [status |-> events[Len(events)].arg,
                        id |-> events[Len(events)].id,
                        events |-> events,
                        session_id |-> session_id]
      /\ UNCHANGED <<stm_vars, hook, idle_time, last_expiry, redis_client,
                     listening, prompt, call>>

\* --------------------------------------------- the confirmation's consumer

\* A subscriber starts or stops listening on its session's channel.
Subscribe ==
  /\ ~listening
  /\ listening' = TRUE
  /\ UNCHANGED <<stm_vars, hook, idle_time, last_expiry, db_memories,
                 redis_client, last_store, inbox, prompt, call>>

Unsubscribe ==
  /\ listening
  /\ listening' = FALSE
  /\ UNCHANGED <<stm_vars, hook, idle_time, last_expiry, db_memories,
                 redis_client, last_store, inbox, prompt, call>>

\* ClearBuffers that clears the buffer and leaves the blob.
ClearBuffers_OnlyBuffer ==
  /\ stm_messages' = <<>>
  /\ stm_messages_ttl' = -2
  /\ UNCHANGED <<stm_memorables, stm_memorables_ttl>>

\* On receipt of a confirmation: clear both the buffer and the blob,
\* whatever they hold.
ClearBuffers ==
  /\ stm_messages' = <<>>
  /\ stm_messages_ttl' = -2
  /\ stm_memorables' = <<>>
  /\ stm_memorables_ttl' = -2

OnConfirmation ==
  /\ inbox # <<>>
  /\ inbox' = Tail(inbox)
  /\ ClearBuffers
  /\ idle_time' = 0
  /\ UNCHANGED <<hook, last_expiry, db_memories, redis_client, last_store,
                 listening, prompt, call>>

\* ------------------------------------------------------ the reminder reader

\* What the reader finds on stdin; json.load raises JSONDecodeError on the
\* last two.
PromptInputs == {"json", "invalid_json", "empty"}

\* The values the blob may hold when the reader runs.  The key is shared
\* with every client of the store, so the reader meets whatever was set:
\* an empty string, blanks, the stop hook's lines, lines with blanks around.
BlobValues ==
  { <<>>,
    <<" ", NL>>,
    <<"-", " ", "a">>,
    <<"-", " ", "a", NL, "-", " ", "b">>,
    <<" ", "-", " ", "a", NL>> }

\* Lines 49-54: the f-string around memorables_str, and print's newline.
subvox_reminder(memorables_str) ==
  <<NL, "<subvox>", NL, "Use Cortex. Suggested memories to store:", NL>>
  \o memorables_str
  \o <<NL, "</subvox>", NL, NL>>

\* Reminder without the "if memorables_str.strip()" test.
Reminder_NoStripTest(memorables) ==
  IF memorables # <<>> /\ memorables[1] # <<>>
  THEN subvox_reminder(memorables[1])
  ELSE <<>>

\* Lines 41-58: what the reader prints for the value r.get returned
\* (<<>>: None).
Reminder(memorables) ==
  IF memorables # <<>> /\ memorables[1] # <<>>
     /\ strip(memorables[1]) # <<>>
  THEN subvox_reminder(memorables[1])
  ELSE <<>>

IdlePrompt ==
  [pc |-> "idle", exit |-> "", input |-> "", up |-> TRUE, read |-> <<>>,
   stdout |-> <<>>]

\* What an invocation leaves when r.get raises redis.RedisError.
PromptStoreError(input) ==
  [pc |-> "done", exit |-> "store_error", input |-> input, up |-> FALSE,
   read |-> <<>>, stdout |-> <<>>]

\* What an invocation leaves when r.get returned memorables.
PromptDone(input, memorables) ==
  [pc |-> "done",
   exit |-> IF Reminder(memorables) # <<>> THEN "reminded" ELSE "nothing",
   input |-> input, up |-> TRUE, read |-> memorables,
   stdout |-> Reminder(memorables)]

\* PromptHook that reads the blob with GETDEL.
PromptHook_GetDel(input, up) ==
  /\ prompt' = IF up THEN PromptDone(input, stm_memorables)
               ELSE PromptStoreError(input)
  /\ stm_memorables' = IF up THEN <<>> ELSE stm_memorables
  /\ stm_memorables_ttl' = IF up THEN -2 ELSE stm_memorables_ttl
  /\ UNCHANGED <<stm_messages, stm_messages_ttl, hook, idle_time,
                 last_expiry, cortex_vars, call>>

\* PromptHook with r.get outside the try: the store error leaves main.
PromptHook_Unguarded(input, up) ==
  /\ prompt' = IF up THEN PromptDone(input, stm_memorables)
               ELSE [PromptStoreError(input) EXCEPT !.exit = "raised"]
  /\ UNCHANGED <<stm_vars, hook, idle_time, last_expiry, cortex_vars, call>>

\* prompt_hook.main, lines 22-58: stdin is consumed, whatever it holds; one
\* r.get, whose RedisError ends the invocation; the print.
PromptHook(input, up) ==
  /\ prompt' = IF up THEN PromptDone(input, stm_memorables)
               ELSE PromptStoreError(input)
  /\ UNCHANGED <<stm_vars, hook, idle_time, last_expiry, cortex_vars, call>>

\* ------------------------------------------------- the functions, called alone

\* One more line that may stand in a transcript.
MaxLines == 3

\* One more character that may stand between the markers.
MaxContent == 3

\* The payload of a tool call or of a tool result.
payload == <<"T">>

\* A tool_result block and a tool_use block; text stands for the payload.
ToolResultWith(t) ==
  [k |-> "dict", type |-> "tool_result", textk |-> "str", text |-> t]

ToolUseWith(t) ==
  [k |-> "dict", type |-> "tool_use", textk |-> "str", text |-> t]

\* The lines of a transcript: events as the transcript format has them, and
\* a line that is no JSON.
TranscriptLines ==
  { Event("user", StrContent(hi)),
    Event("user", ListContent(<<TextBlock(yo), ToolResultWith(payload),
                                BareString(hi)>>)),
    Event("user", ListContent(<<ToolResultWith(payload)>>)),
    Event("user", StrContent(<<" ">>)),
    Event("assistant", ListContent(<<TextBlock(<<" ">> \o ok),
                                     ToolUseWith(payload),
                                     TextBlock(yo)>>)),
    Event("assistant", ListContent(<<ToolUseWith(payload),
                                     TextBlock(<<" ">>)>>)),
    Event("system", NoContent),
    MalformedLine }

Transcripts ==
  {MissingFile}
  \cup {File(lines) :
          lines \in UNION {[1..n -> TranscriptLines] : n \in 0..MaxLines}}

\* Any line a file may hold: text that is no JSON, a JSON value that is no
\* object, and events whose message or content is missing, null or a bare
\* string, next to a user event and an assistant event in the format.
AnyLines ==
  { Event("user", StrContent(hi)),
    Event("assistant", ListContent(<<TextBlock(ok)>>)),
    MalformedLine,
    NonObjectLine,
    Event("system", NoContent) }
  \cup UNION {{ EventNoMessage(type),
               EventNullMessage(type),
               EventBareMessage(type),
               Event(type, NoContent),
               Event(type, NullContent) } : type \in {"user", "assistant"}}
  \cup { Event("assistant", StrContent(hi)) }

AnyTranscripts ==
  {File(lines) :
     lines \in UNION {[1..n -> AnyLines] : n \in 0..MaxLines}}

ContentChars == {"-", "*", " ", NL, "a", "<"}

\* What may stand between the markers: every text of at most MaxContent
\* characters, the sentinels in several spellings, and longer lists.
Contents ==
  UNION {[1..n -> ContentChars] : n \in 0..MaxContent}
  \cup { <<" ", "N", "o", "n", "e", NL>>,
         <<"N", "O", "T", "H", "I", "N", "G", " ",
           "N", "O", "T", "A", "B", "L", "E">>,
         <<"N", "o", "t", "h", "i", "n", "g", " ",
           "n", "o", "t", "a", "b", "l", "e", ".">>,
         <<"n", "o", "n", "e", ".">>,
         <<"-", " ", "a", NL, "-", " ", "b">>,
         <<"*", " ", "L", "i", "k", "e", "s", " ", "S", "a", "m", NL,
           "*", " ", "W", "a", "n", "t", "s", " ",
           "r", "e", "m", "i", "n", "d", "e", "r">>,
         <<"-", " ", " ", "a", " ", NL, NL, "<", "b", NL, " ", "c">> }

\* The model's answers: the content between the markers, with or without
\* text around; without the pair; with one marker only; with the markers in
\* the wrong order.
MemorablesResponses ==
  UNION {{ <<OPEN>> \o c \o <<CLOSE>>,
           <<"r", NL, OPEN>> \o c \o <<CLOSE, NL, "r">>,
           c,
           <<OPEN>> \o c,
           <<CLOSE>> \o c \o <<OPEN>> } : c \in Contents}

NoCall == [fn |-> "", input |-> <<>>, output |-> <<>>]

\* A call is made once, on the input it is given.
CallParseTranscript(file) ==
  /\ call = NoCall
  /\ call' = [fn |-> "parse_transcript_backwards", input |-> file,
              output |-> parse_transcript_backwards(file)]
  /\ UNCHANGED <<stm_vars, hook, idle_time, last_expiry, cortex_vars, prompt>>

CallParseMemorables(response) ==
  /\ call = NoCall
  /\ call' = [fn |-> "parse_memorables", input |-> response,
              output |-> parse_memorables(response)]
  /\ UNCHANGED <<stm_vars, hook, idle_time, last_expiry, cortex_vars, prompt>>

\* One more entry that may stand in a buffer read alone.
MaxEntries == 3

\* An entry json.loads rejects.
NotJson == [valid |-> FALSE]

\* An entry that is valid JSON without the keys of an Exchange: {}, [], 42.
EmptyObject == [valid |-> TRUE]

\* {"user_message": "hi"}: no assistant_messages.
NoAssistantMessages == [valid |-> TRUE, user_message |-> hi]

\* What may stand in the list when others write it too.
BufferEntries ==
  { json_dumps(Exchange(hi, <<ok>>)),
    json_dumps(Exchange(yo, <<ok, hi>>)),
    NotJson,
    EmptyObject,
    NoAssistantMessages }

Buffers == UNION {[1..n -> BufferEntries] : n \in 0..MaxEntries}

\* Lines 216-223: exchange['user_message'] and
\* exchange["assistant_messages"] raise KeyError or TypeError on a value
\* that lacks them.
FormatExchangeRaises(entry) ==
  ~({"user_message", "assistant_messages"} \subseteq DOMAIN entry)

\* Lines 232-237: json.loads and format_exchange stand in one try that
\* catches json.JSONDecodeError only.
BuildConversationRaises(existing) ==
  \E i \in 1..Len(existing) :
    existing[i].valid /\ FormatExchangeRaises(existing[i])

CallBuildConversation(existing) ==
  /\ call = NoCall
  /\ call' = [fn |-> "build_conversation_from_stm", input |-> existing,
              output |-> IF BuildConversationRaises(existing)
                         THEN [k |-> "raise", text |-> <<>>]
                         ELSE [k |-> "ok",
                               text |-> build_conversation_from_stm(existing)]]
  /\ UNCHANGED <<stm_vars, hook, idle_time, last_expiry, cortex_vars, prompt>>

\* ------------------------------------------------------- the CLI's store

\* No /store request has been answered.
NoStore == [status |-> "", id |-> 0, events |-> <<>>, session_id |-> ""]

CORTEX_STORE_SUCCESS_QUACK == "CORTEX_STORE_SUCCESS_QUACK"

\* The content argument: not given, "-", or a text.
NoArgument == [given |-> FALSE, text |-> <<>>]

Argument(t) == [given |-> TRUE, text |-> t]

\* How the command is started: the argument, stdin and whether it is a
\* terminal, CORTEX_API_KEY ("": not set) and CLAUDE_SESSION_ID ("": not set).
CliInputs ==
  [content : {NoArgument, Argument(<<"-">>), Argument(<<>>),
              Argument(<<"m", "1">>)},
   stdin : {<<>>, <<" ", NL>>, <<"m", "2", NL>>},
   isatty : BOOLEAN,
   api_key : {"", "key", "wrong"},
   session_id : SessionIds]

\* Lines 93-94: the content after stdin was read.
CliContent(input) ==
  IF input.content = Argument(<<"-">>)
     \/ (~input.content.given /\ ~input.isatty)
  THEN strip(input.stdin)
  ELSE input.content.text

\* The command has ended before it called client.post.
CliExitEarly(input, message) ==
  [fn |-> "store", input |-> input,
   output |-> [pc |-> "done", exit_code |-> 1, stdout |-> <<message>>,
               posted |-> FALSE, sent |-> FALSE]]

\* store, lines 90-117: no content: Exit(1); get_config without an API key:
\* Exit(1); client.post, which raises httpx.ConnectError when no connection
\* can be made, and otherwise sends the request.
CliStoreStart(input, connect_ok) ==
  /\ call = NoCall
  /\ call' =
       IF CliContent(input) = <<>>
       THEN CliExitEarly(input, "Error: No content provided")
       ELSE IF input.api_key = ""
       THEN CliExitEarly(input, "Error: CORTEX_API_KEY not set")
       ELSE IF ~connect_ok
       THEN [fn |-> "store", input |-> input,
             output |-> [pc |-> "done", exit_code |-> 1,
                         stdout |-> <<"Error: Could not connect to Cortex server">>,
                         posted |-> TRUE, sent |-> FALSE]]
       ELSE [fn |-> "store", input |-> input,
             output |-> [pc |-> "post", exit_code |-> 0, stdout |-> <<>>,
                         posted |-> TRUE, sent |-> TRUE]]
  /\ UNCHANGED <<stm_vars, hook, idle_time, last_expiry, cortex_vars, prompt>>

\* The request is at the server and has not been answered.
RequestPending == call.fn = "store" /\ call.output.sent /\ last_store = NoStore

\* verify_api_key, lines 86-92: 401, before the handler runs.
Unauthorized ==
  /\ RequestPending
  /\ call.input.api_key # "key"
  /\ last_store' = [status |-> "401", id |-> 0,
                    events |-> <<[op |-> "http", id |-> 0, arg |-> "401"]>>,
                    session_id |-> call.input.session_id]
  /\ UNCHANGED <<stm_vars, hook, idle_time, last_expiry, db_memories,
                 redis_client, listening, inbox, prompt, call>>

\* POST /store on the request the CLI sent.
ServeStore(embed_ok, insert_ok, publish_ok) ==
  /\ RequestPending
  /\ call.input.api_key = "key"
  /\ StoreMemory(CliContent(call.input), call.input.session_id,
                 embed_ok, insert_ok, publish_ok)

\* CliStoreFinish without raise_for_status.
CliStoreFinish_NoRaiseForStatus(response_ok) ==
  /\ call.fn = "store"
  /\ call.output.pc = "post"
  /\ response_ok => last_store # NoStore
  /\ call' = [call EXCEPT !.output =
       IF ~response_ok
       THEN [@ EXCEPT !.pc = "done", !.exit_code = 1]
       ELSE [@ EXCEPT !.pc = "done", !.exit_code = 0,
                      !.stdout = <<"Memory stored",
                                   CORTEX_STORE_SUCCESS_QUACK>>]]
  /\ UNCHANGED <<stm_vars, hook, idle_time, last_expiry, cortex_vars, prompt>>

\* store, lines 118-131: the response arrives, or client.post raises an
\* httpx error that is no ConnectError (a timeout, a broken read), which the
\* command does not catch; raise_for_status; the two prints.
CliStoreFinish(response_ok) ==
  /\ call.fn = "store"
  /\ call.output.pc = "post"
  /\ response_ok => last_store # NoStore
  /\ call' = [call EXCEPT !.output =
       IF ~response_ok
       THEN [@ EXCEPT !.pc = "done", !.exit_code = 1]
       ELSE IF last_store.status = "201"
       THEN [@ EXCEPT !.pc = "done", !.exit_code = 0,
                      !.stdout = <<"Memory stored",
                                   CORTEX_STORE_SUCCESS_QUACK>>]
       ELSE [@ EXCEPT !.pc = "done", !.exit_code = 1,
                      !.stdout = <<"Error: " \o last_store.status>>]]
  /\ UNCHANGED <<stm_vars, hook, idle_time, last_expiry, cortex_vars, prompt>>

\* ------------------------------------------------- forgetting and reading

\* The rows of a sequence, as a set.
Rows(rows) == {rows[i] : i \in 1..Len(rows)}

\* LIMIT n on rows whose order the model does not fix (ORDER BY a score, or
\* a creation time; the model has the ids, which grow with time): the
\* results the query may give.
Limited(candidates, limit) ==
  {r \in SUBSET candidates :
     Cardinality(r) = Min(limit, Cardinality(candidates))}

\* ORDER BY created_at DESC LIMIT n: the n newest.
Newest(candidates, limit) ==
  {row \in candidates :
     Cardinality({other \in candidates : other.id > row.id}) < limit}

\* db.health_check, lines 33-45: SELECT COUNT(*) ... WHERE NOT forgotten.
health_check == Cardinality({row \in Rows(db_memories) : ~row.forgotten})

\* db.search_memories, lines 77-170: the WHERE clause, the full-text match
\* of an exact search (a row matches the text it holds), the LIMIT.  after
\* and before are creation times; 0: not given.
search_memories(query_text, limit, include_forgotten, exact, after, before) ==
  Limited({row \in Rows(db_memories) :
             /\ include_forgotten \/ ~row.forgotten
             /\ after = 0 \/ row.id >= after
             /\ before = 0 \/ row.id < before
             /\ exact => row.content = query_text},
          limit)

\* db.get_recent_memories, lines 172-203; cutoff is now minus the hours.
get_recent_memories(limit, cutoff) ==
  Newest({row \in Rows(db_memories) : ~row.forgotten /\ row.id >= cutoff},
         limit)

\* db.get_vectors, lines 205-229; every row has its embedding.
get_vectors(limit) ==
  Newest({row \in Rows(db_memories) : ~row.forgotten}, limit)

\* The ids a request may name: those of the rows, and one more.
MemoryIds == 1..(MaxMem + 1)

\* ForgetMemory whose UPDATE has no "AND NOT forgotten".
ForgetMemory_AnyRow(memory_id) ==
  LET hit == {i \in 1..Len(db_memories) : db_memories[i].id = memory_id}
  IN  /\ db_memories' = [i \in 1..Len(db_memories) |->
                           IF i \in hit
                           THEN [db_memories[i] EXCEPT !.forgotten = TRUE]
                           ELSE db_memories[i]]
      /\ call' = [fn |-> "forget_memory", input |-> memory_id,
                  output |-> Cardinality(hit) = 1]
      /\ UNCHANGED <<stm_vars, hook, idle_time, last_expiry, redis_client,
                     last_store, listening, inbox, prompt>>

\* POST /forget, main.py 231-235, and db.forget_memory, lines 231-243:
\* UPDATE ... SET forgotten = TRUE WHERE id = $1 AND NOT forgotten;
\* result == "UPDATE 1".
ForgetMemory(memory_id) ==
  LET hit == {i \in 1..Len(db_memories) :
                db_memories[i].id = memory_id /\ ~db_memories[i].forgotten}
  IN  /\ db_memories' = [i \in 1..Len(db_memories) |->
                           IF i \in hit
                           THEN [db_memories[i] EXCEPT !.forgotten = TRUE]
                           ELSE db_memories[i]]
      /\ call' = [fn |-> "forget_memory", input |-> memory_id,
                  output |-> Cardinality(hit) = 1]
      /\ UNCHANGED <<stm_vars, hook, idle_time, last_expiry, redis_client,
                     last_store, listening, inbox, prompt>>

\* The methods class Database defines (db.py, lines 11-243).
DatabaseMethods ==
  {"connect", "disconnect", "health_check", "store_memory",
   "search_memories", "get_recent_memories", "get_vectors", "forget_memory"}

\* GET /get/{memory_id}, main.py 238-252: db.get_memory(memory_id), a
\* method Database does not define: AttributeError, which the framework
\* answers with 500.  With the method: None gives 404, a row gives the
\* memory.
GetMemoryById(memory_id) ==
  LET found == {row \in Rows(db_memories) : row.id = memory_id}
  IN  /\ call' = [fn |-> "get_memory_by_id", input |-> memory_id,
                  output |->
                    IF "get_memory" \notin DatabaseMethods
                    THEN [status |-> "500", memory |-> {}]
                    ELSE IF found = {}
                    THEN [status |-> "404", memory |-> {}]
                    ELSE [status |-> "200", memory |-> found]]
      /\ UNCHANGED <<stm_vars, hook, idle_time, last_expiry, cortex_vars,
                     prompt>>

\* ------------------------------------------------------ the specification

\* The state before any invocation and any request.
InitCommon ==
  /\ stm_messages = <<>>
  /\ stm_messages_ttl = -2
  /\ stm_memorables = <<>>
  /\ stm_memorables_ttl = -2
  /\ hook = [p \in Hooks |-> IdleHook]
  /\ idle_time = 0
  /\ last_expiry = -1
  /\ db_memories = <<>>
  /\ last_store = NoStore
  /\ inbox = <<>>
  /\ prompt = IdlePrompt
  /\ call = NoCall

\* A /store request that succeeds at every step, sent in the subscriber's
\* session.
ConfirmedStore == StoreMemory("m1", SubscriberSession, TRUE, TRUE, TRUE)

\* Spec: the short-term memory.  The long-term store is connected to Redis,
\* a subscriber listens, and every /store request succeeds: a request that
\* fails, or whose confirmation is lost, changes nothing the short-term
\* memory can see (SpecCortex has them).
Init ==
  /\ InitCommon
  /\ redis_client = lifespan(TRUE, TRUE)
  /\ listening = TRUE

Next ==
  \/ \E p \in Hooks, input \in HookInputs : HookStart(p, input)
  \/ \E p \in Hooks, up \in BOOLEAN : HookLpush(p, up)
  \/ \E p \in Hooks, up \in BOOLEAN : HookExpire(p, up)
  \/ \E p \in Hooks, up \in BOOLEAN : HookLrange(p, up)
  \/ \E p \in Hooks, up \in BOOLEAN : HookGet(p, up)
  \/ \E p \in Hooks, found \in BOOLEAN : HookLoadTemplate(p, found)
  \/ \E p \in Hooks, r \in Responses :
       HookAskOlmo(p, [ok |-> TRUE, response |-> r, error |-> ""])
  \/ \E p \in Hooks, e \in OlmoFailures :
       HookAskOlmo(p, [ok |-> FALSE, response |-> <<>>, error |-> e])
  \/ \E p \in Hooks, up \in BOOLEAN : HookLlen(p, up)
  \/ \E p \in Hooks, up \in BOOLEAN : HookStoreMemorables(p, up)
  \/ Tick
  \/ ConfirmedStore
  \/ OnConfirmation

Spec == Init /\ [][Next]_vars

\* SpecLifetime: Spec while time passes: a TTL that runs does run out.
SpecLifetime == Init /\ [][Next]_vars /\ WF_vars(Tick)

\* SpecSessions: two sessions, each with one stop-hook invocation on its
\* own transcript, and the reminder reader, on a store that answers; the
\* keys are the same for both.
Sessions == {1, 2}

SessionInput(p) ==
  [json |-> TRUE, has_path |-> TRUE,
   file |-> IF p = 1 THEN TranscriptSimple ELSE TranscriptTools]

SessionStart(p) ==
  /\ hook[p].pc = "idle"
  /\ HookStart(p, SessionInput(p))

InitSessions ==
  /\ stm_messages = <<>>
  /\ stm_messages_ttl = -2
  /\ stm_memorables = <<>>
  /\ stm_memorables_ttl = -2
  /\ hook = [p \in Sessions |-> IdleHook]
  /\ idle_time = 0
  /\ last_expiry = -1
  /\ db_memories = <<>>
  /\ last_store = NoStore
  /\ inbox = <<>>
  /\ redis_client = lifespan(TRUE, TRUE)
  /\ listening = TRUE
  /\ prompt = IdlePrompt
  /\ call = NoCall

NextSessions ==
  \/ \E p \in Sessions : SessionStart(p)
  \/ \E p \in Sessions : HookLpush(p, TRUE)
  \/ \E p \in Sessions : HookExpire(p, TRUE)
  \/ \E p \in Sessions : HookLrange(p, TRUE)
  \/ \E p \in Sessions : HookGet(p, TRUE)
  \/ \E p \in Sessions : HookLoadTemplate(p, TRUE)
  \/ \E p \in Sessions, r \in Responses :
       HookAskOlmo(p, [ok |-> TRUE, response |-> r, error |-> ""])
  \/ \E p \in Sessions : HookLlen(p, TRUE)
  \/ \E p \in Sessions : HookStoreMemorables(p, TRUE)
  \/ PromptHook("json", TRUE)

SpecSessions == InitSessions /\ [][NextSessions]_vars

\* SpecSequential: stop-hook invocations one after the other and nothing
\* else: no time passes and no confirmation arrives.
NextSequential ==
  \/ \E p \in Hooks, input \in HookInputs : HookStart(p, input)
  \/ \E p \in Hooks, up \in BOOLEAN : HookLpush(p, up)
  \/ \E p \in Hooks, up \in BOOLEAN : HookExpire(p, up)
  \/ \E p \in Hooks, up \in BOOLEAN : HookLrange(p, up)
  \/ \E p \in Hooks, up \in BOOLEAN : HookGet(p, up)
  \/ \E p \in Hooks, found \in BOOLEAN : HookLoadTemplate(p, found)
  \/ \E p \in Hooks, r \in Responses :
       HookAskOlmo(p, [ok |-> TRUE, response |-> r, error |-> ""])
  \/ \E p \in Hooks, e \in OlmoFailures :
       HookAskOlmo(p, [ok |-> FALSE, response |-> <<>>, error |-> e])
  \/ \E p \in Hooks, up \in BOOLEAN : HookLlen(p, up)
  \/ \E p \in Hooks, up \in BOOLEAN : HookStoreMemorables(p, up)

SpecSequential == Init /\ [][NextSequential]_vars

\* SpecClear: stop-hook invocations and confirmed stores whose
\* confirmation clears buffer and blob, interleaved at every command; no
\* time passes.
NextClear ==
  \/ NextSequential
  \/ ConfirmedStore
  \/ OnConfirmation

SpecClear == Init /\ [][NextClear]_vars

\* SpecCortex: the long-term store and the confirmation's way to the
\* subscriber, with every outcome of a /store request.
InitCortex ==
  /\ InitCommon
  /\ redis_client \in {lifespan(u, ping) : u \in BOOLEAN, ping \in BOOLEAN}
  /\ listening = FALSE

NextCortex ==
  \/ \E c \in StoreContents, s \in SessionIds :
       \E e \in BOOLEAN, i \in BOOLEAN, pub \in BOOLEAN :
         StoreMemory(c, s, e, i, pub)
  \/ Subscribe
  \/ Unsubscribe
  \/ OnConfirmation

SpecCortex == InitCortex /\ [][NextCortex]_vars

\* SpecCli: one store command of the CLI and the service that answers it.
NextCli ==
  \/ \E input \in CliInputs, connect_ok \in BOOLEAN :
       CliStoreStart(input, connect_ok)
  \/ Unauthorized
  \/ \E e \in BOOLEAN, i \in BOOLEAN, pub \in BOOLEAN : ServeStore(e, i, pub)
  \/ \E response_ok \in BOOLEAN : CliStoreFinish(response_ok)

SpecCli == InitCortex /\ [][NextCli]_vars

\* SpecForget: memories are stored, forgotten and read by id.
NextForget ==
  \/ \E c \in StoreContents, e \in BOOLEAN, i \in BOOLEAN :
       StoreMemory(c, "", e, i, TRUE)
  \/ \E memory_id \in MemoryIds : ForgetMemory(memory_id)
  \/ \E memory_id \in MemoryIds : GetMemoryById(memory_id)

SpecForget == InitCortex /\ [][NextForget]_vars

\* SpecReminder: the reminder reader, on every value of the blob, while time
\* passes.
InitReminder ==
  /\ stm_messages \in {<<>>, <<json_dumps(Exchange(hi, <<ok>>))>>}
  /\ stm_messages_ttl = IF stm_messages = <<>> THEN -2 ELSE STM_TTL
  /\ stm_memorables \in {<<>>} \cup {<<b>> : b \in BlobValues}
  /\ stm_memorables_ttl = IF stm_memorables = <<>> THEN -2 ELSE STM_TTL
  /\ hook = [p \in Hooks |-> IdleHook]
  /\ idle_time = 0
  /\ last_expiry = -1
  /\ db_memories = <<>>
  /\ last_store = NoStore
  /\ inbox = <<>>
  /\ redis_client = lifespan(TRUE, TRUE)
  /\ listening = TRUE
  /\ prompt = IdlePrompt
  /\ call = NoCall

NextReminder ==
  \/ \E input \in PromptInputs, up \in BOOLEAN : PromptHook(input, up)
  \/ Tick

SpecReminder == InitReminder /\ [][NextReminder]_vars

\* SpecExtract: parse_transcript_backwards on every transcript of at most
\* MaxLines lines.
NextExtract == \E file \in Transcripts : CallParseTranscript(file)

SpecExtract == Init /\ [][NextExtract]_vars

\* SpecTotal: parse_transcript_backwards on every existing file of at most
\* MaxLines lines of AnyLines.
NextTotal == \E file \in AnyTranscripts : CallParseTranscript(file)

SpecTotal == Init /\ [][NextTotal]_vars

\* SpecMemorables: parse_memorables on every answer of MemorablesResponses.
NextMemorables ==
  \E response \in MemorablesResponses : CallParseMemorables(response)

SpecMemorables == Init /\ [][NextMemorables]_vars

\* SpecConversation: build_conversation_from_stm on every buffer of at most
\* MaxEntries entries.
NextConversation == \E existing \in Buffers : CallBuildConversation(existing)

SpecConversation == Init /\ [][NextConversation]_vars

\* ------------------------------------------------------------- the claims

Commands(p) == {hook[p].commands[i] : i \in 1..Len(hook[p].commands)}

\* The store commands an invocation has issued when it reaches the model call.
CommandsBeforeAsk == <<"lpush", "expire", "lrange", "get">>

\* C1: no step of a stop-hook invocation removes, changes or reorders a
\* buffer entry: a step leaves the buffer as it is, or (the lpush, once per
\* invocation) puts the invocation's exchange in front of it.
C1_StopHookNeverFlushes ==
  [][\A p \in Hooks :
       hook'[p] # hook[p] =>
         \/ stm_messages' = stm_messages
         \/ /\ hook[p].pc = "lpush"
            /\ Len(stm_messages') = Len(stm_messages) + 1
            /\ Tail(stm_messages') = stm_messages
            /\ Head(stm_messages').valid
            /\ Head(stm_messages').user_message
                 = hook[p].exchange.user_message
            /\ Head(stm_messages').assistant_messages
                 = hook[p].exchange.assistant_messages]_vars

\* An invocation has stored memorables and the buffer still holds the
\* earlier exchange behind the new one.
C1_Witness ==
  \E p \in Hooks :
    /\ hook[p].exit = "updated"
    /\ Len(stm_messages) >= 2
    /\ Head(stm_messages).user_message = hook[p].exchange.user_message

\* C2: the step that handles a received confirmation leaves neither the
\* buffer nor the blob behind, whatever they held.
C2_ConfirmationClearsBoth ==
  [][Len(inbox') < Len(inbox) =>
       /\ stm_messages' = <<>>
       /\ stm_messages_ttl' = -2
       /\ stm_memorables' = <<>>
       /\ stm_memorables_ttl' = -2]_vars

\* An invocation pushed its exchange and stored memorables, the buffer never
\* expired, the confirmation has been handled, and buffer and blob are gone.
C2_Witness ==
  /\ \E p \in Hooks : hook[p].exit = "updated"
  /\ db_memories # <<>>
  /\ inbox = <<>>
  /\ last_expiry = -1
  /\ stm_messages = <<>>
  /\ stm_memorables = <<>>

\* C3 as claimed: after an invocation that parsed no memorable item the blob
\* is empty or absent.
C3_BlobEmptyAfterNoItems ==
  \A p \in Hooks :
    hook[p].exit = "no_memorables" => stm_memorables \in {<<>>, << <<>> >>}

\* C3 as amended: the last step of an invocation that parsed no memorable
\* item leaves the blob and its TTL as they are; it issues no set and no
\* delete.
C3_BlobUntouchedAfterNoItems ==
  /\ [](\A p \in Hooks :
          hook[p].exit = "no_memorables" =>
            hook[p].commands = CommandsBeforeAsk \o <<"llen">>)
  /\ [][\A p \in Hooks :
          (hook[p].pc = "set" /\ hook[p].parsed_memorables = <<>>
           /\ hook'[p] # hook[p]) =>
            /\ hook'[p].exit = "no_memorables"
            /\ UNCHANGED <<stm_memorables, stm_memorables_ttl>>]_vars

\* Nothing was parsed and the stale blob is still there.
C3_Witness ==
  \E p \in Hooks :
    /\ hook[p].exit = "no_memorables"
    /\ stm_memorables # <<>>
    /\ stm_memorables[1] # <<>>

\* C4: the step that stores n parsed items sets the blob to exactly n lines,
\* line i being "- " and item i, and its TTL to STM_TTL.
C4_BlobHoldsTheItems ==
  [][\A p \in Hooks :
       (hook[p].pc = "set" /\ hook[p].parsed_memorables # <<>>
        /\ hook'[p].exit = "updated") =>
         /\ Len(stm_memorables') = 1
         /\ LET items == hook[p].parsed_memorables
                lines == split(stm_memorables'[1], NL)
            IN  /\ Len(lines) = Len(items)
                /\ \A i \in 1..Len(items) :
                     lines[i] = <<"-", " ">> \o items[i]
         /\ stm_memorables_ttl' = STM_TTL]_vars

\* Two items were parsed and the blob holds their two lines.
C4_Witness ==
  \E p \in Hooks :
    /\ hook[p].exit = "updated"
    /\ Len(hook[p].parsed_memorables) = 2
    /\ stm_memorables = << <<"-", " ", "a", NL, "-", " ", "b">> >>
    /\ stm_memorables_ttl = STM_TTL

\* C5: an invocation whose model call failed has called the model once and
\* issued no store command after the reads; the failing step changes
\* neither the buffer nor the blob nor their TTLs.
C5_ModelFailureChangesNothing ==
  /\ [](\A p \in Hooks :
          hook[p].exit = "olmo_failed" =>
            /\ hook[p].olmo_calls = 1
            /\ hook[p].commands = CommandsBeforeAsk)
  /\ [][\A p \in Hooks :
          (hook[p].pc = "ask" /\ hook'[p].pc = "done") =>
            /\ hook'[p].exit = "olmo_failed"
            /\ hook'[p].olmo_calls = 1
            /\ UNCHANGED stm_vars]_vars

\* The model call failed and the appended exchange heads the buffer.
C5_Witness ==
  \E p \in Hooks :
    /\ hook[p].exit = "olmo_failed"
    /\ hook[p].olmo_calls = 1
    /\ stm_messages # <<>>
    /\ Head(stm_messages).user_message = hook[p].exchange.user_message
    /\ stm_messages_ttl = STM_TTL

\* C6 as claimed: an invocation that found no template has issued no
\* command that changes the store.
C6_NoTemplateNoMutation ==
  \A p \in Hooks :
    hook[p].exit = "no_template" =>
      Commands(p) \cap {"lpush", "expire", "set"} = {}

\* C6 as amended: an invocation that finds no template ends handled, after
\* its lpush and expire, without a model call; the step that finds the
\* template missing changes neither buffer nor blob nor their TTLs.
C6_NoTemplateAfterAppend ==
  /\ [](\A p \in Hooks :
          hook[p].exit = "no_template" =>
            /\ hook[p].commands = CommandsBeforeAsk
            /\ hook[p].olmo_calls = 0)
  /\ [][\A p \in Hooks :
          (hook[p].pc = "template" /\ hook'[p].pc = "done") =>
            /\ hook'[p].exit = "no_template"
            /\ UNCHANGED stm_vars]_vars

\* The template was missing and the appended exchange heads the buffer.
C6_Witness ==
  \E p \in Hooks :
    /\ hook[p].exit = "no_template"
    /\ stm_messages # <<>>
    /\ Head(stm_messages).user_message = hook[p].exchange.user_message
    /\ stm_messages_ttl = STM_TTL

\* A line that is a user event with non-blank text.
HasUserText(line) ==
  /\ line.json
  /\ line.obj
  /\ line.type = "user"
  /\ line.message.k = "dict"
  /\ \/ /\ line.message.content.k = "str"
        /\ \E i \in 1..Len(line.message.content.text) :
             line.message.content.text[i] \notin Whitespace
     \/ /\ line.message.content.k = "list"
        /\ \E j \in 1..Len(line.message.content.items) :
             LET item == line.message.content.items[j]
             IN  /\ \/ item.k = "str"
                    \/ item.k = "dict" /\ item.type = "text"
                       /\ item.textk = "str"
                 /\ \E i \in 1..Len(item.text) :
                      item.text[i] \notin Whitespace

\* The exit of an invocation whose input is an input error, "" for another.
InputErrorExit(input) ==
  IF ~input.json THEN "invalid_json"
  ELSE IF ~input.has_path THEN "no_transcript_path"
  ELSE IF ~input.file.exists
          \/ \A i \in 1..Len(input.file.lines) :
               ~HasUserText(input.file.lines[i])
  THEN "no_exchange"
  ELSE ""

\* C7: an invocation whose input is invalid JSON, has no transcript_path,
\* names a missing file or a transcript without user text has ended with
\* the matching return, no store command and no model call; the step that
\* reads the input changes neither buffer nor blob nor their TTLs.
C7_InputErrorsWriteNothing ==
  /\ [](\A p \in Hooks :
          (hook[p].pc # "idle" /\ InputErrorExit(hook[p].input) # "") =>
            /\ hook[p].pc = "done"
            /\ hook[p].exit = InputErrorExit(hook[p].input)
            /\ hook[p].commands = <<>>
            /\ hook[p].olmo_calls = 0)
  /\ [][\A p \in Hooks :
          (hook[p].pc \in {"idle", "done"} /\ hook'[p] # hook[p]) =>
            UNCHANGED stm_vars]_vars

\* A transcript without user text ended the invocation; the buffer and the
\* blob it found are there.
C7_Witness ==
  \E p \in Hooks :
    /\ hook[p].exit = "no_exchange"
    /\ hook[p].input.file.exists
    /\ hook[p].input.file.lines # <<>>
    /\ stm_messages # <<>>
    /\ stm_memorables # <<>>

\* C8 as claimed: an invocation that found the store unreachable has not
\* ended in an unhandled exception.
C8_StoreFailureHandled ==
  \A p \in Hooks :
    "unreachable" \in Commands(p) => hook[p].exit # "raised"

RowIds == {db_memories[i].id : i \in 1..Len(db_memories)}

\* C10: in the events of a /store request a publish comes after the insert
\* of the row whose id it carries, and that row is in the database; a
\* request whose embedding failed ends with 503 and neither inserts nor
\* publishes; a delivered confirmation names a stored row.
C10_PublishAfterInsert ==
  /\ [](LET events == last_store.events
        IN  /\ \A i \in 1..Len(events) :
                 events[i].op = "publish" =>
                   /\ \E j \in 1..(i - 1) :
                        /\ events[j].op = "insert"
                        /\ events[j].id = events[i].id
                   /\ events[i].id \in RowIds
            /\ (\E i \in 1..Len(events) : events[i].op = "embed_failed") =>
                 /\ last_store.status = "503"
                 /\ \A i \in 1..Len(events) :
                      events[i].op \notin {"insert", "publish"}
            /\ \A i \in 1..Len(inbox) : inbox[i].message \in RowIds)
  /\ [][(last_store' # last_store /\ last_store'.status = "503") =>
          /\ db_memories' = db_memories
          /\ inbox' = inbox]_vars

\* A request stored a row, published its id, and the subscriber has it.
C10_Witness ==
  /\ last_store.status = "201"
  /\ \E i \in 1..Len(last_store.events) :
       /\ last_store.events[i].op = "publish"
       /\ last_store.events[i].id = last_store.id
  /\ inbox # <<>>
  /\ inbox[Len(inbox)].message = last_store.id
  /\ last_store.id \in RowIds

\* The publish attempts among the events of a request.
PublishAttempts(events) ==
  SelectSeq(events, LAMBDA e : e.op \in {"publish", "publish_failed"})

\* C11: a request that attempted the publish, failed or not, attempted it
\* once, answers 201 with the id of the row it inserted, and that row is in
\* the database; rows once stored stay stored; a publish made while no
\* subscriber listens reaches no inbox, and a subscriber that starts
\* listening later receives nothing of what was published before.
C11_PublishFireAndForget ==
  /\ [](LET events == last_store.events
        IN  PublishAttempts(events) # <<>> =>
              /\ Len(PublishAttempts(events)) = 1
              /\ last_store.status = "201"
              /\ PublishAttempts(events)[1].id = last_store.id
              /\ \E i \in 1..Len(db_memories) :
                   db_memories[i].id = last_store.id)
  /\ [][/\ Len(db_memories') >= Len(db_memories)
        /\ SubSeq(db_memories', 1, Len(db_memories)) = db_memories
        /\ (db_memories' # db_memories /\ ~listening) => inbox' = inbox
        /\ listening' # listening => inbox' = inbox]_vars

\* The publish of the latest request raised; the request answered 201 and
\* its row is stored; no confirmation is under way.
C11_Witness ==
  /\ last_store.status = "201"
  /\ \E i \in 1..Len(last_store.events) :
       last_store.events[i].op = "publish_failed"
  /\ \E i \in 1..Len(db_memories) : db_memories[i].id = last_store.id
  /\ inbox = <<>>

\* The lines of a transcript that are user events with non-blank text.
UserTextLines(lines) == {i \in 1..Len(lines) : HasUserText(lines[i])}

\* The last of them.
LastUserText(lines) ==
  CHOOSE i \in UserTextLines(lines) : \A j \in UserTextLines(lines) : j <= i

IsTextItem(item) ==
  item.k = "str" \/ (item.k = "dict" /\ item.type = "text")

\* The text of a user event: the raw string, or its text blocks and bare
\* strings, one per line.
UserText(line) ==
  IF line.message.content.k = "str" THEN line.message.content.text
  ELSE LET texts == SelectSeq(line.message.content.items, IsTextItem)
       IN  join(<<NL>>, [i \in 1..Len(texts) |-> texts[i].text])

\* C12: on a transcript with a user event whose text is not blank,
\* extraction returns an Exchange whose user_message is the text of the
\* last such event, whatever user events without text follow it.
C12_LastUserTextIsExtracted ==
  (/\ call.fn = "parse_transcript_backwards"
   /\ call.input.exists
   /\ UserTextLines(call.input.lines) # {}) =>
    /\ call.output.k = "exchange"
    /\ call.output.user_message =
         UserText(call.input.lines[LastUserText(call.input.lines)])

\* A user event with text blocks, then a tool-result-only user event, then a
\* blank one: the first one's text is returned.
C12_Witness ==
  /\ call.fn = "parse_transcript_backwards"
  /\ call.input.exists
  /\ Len(call.input.lines) = 3
  /\ call.input.lines[2] = Event("user", ListContent(<<ToolResultWith(payload)>>))
  /\ call.input.lines[3] = Event("user", StrContent(<<" ">>))
  /\ call.output.k = "exchange"
  /\ call.output.user_message = yo \o <<NL>> \o hi

\* C13: extraction returns "no exchange" or one Exchange, and "no exchange"
\* exactly when the file is missing or has no user event with non-blank
\* text.
C13_NoExchangeExactlyWithoutUserText ==
  call.fn = "parse_transcript_backwards" =>
    /\ call.output.k \in {"none", "exchange"}
    /\ call.output.k = "none" <=>
         (~call.input.exists \/ UserTextLines(call.input.lines) = {})

\* A file with user events, none of them with text, and an assistant
\* event: no exchange.
C13_Witness ==
  /\ call.fn = "parse_transcript_backwards"
  /\ call.input.exists
  /\ \E i \in 1..Len(call.input.lines) : call.input.lines[i].type = "user"
  /\ \E i \in 1..Len(call.input.lines) :
       call.input.lines[i].type = "assistant"
  /\ call.output.k = "none"

IsNonBlankTextBlock(block) ==
  /\ block.k = "dict"
  /\ block.type = "text"
  /\ \E i \in 1..Len(block.text) : block.text[i] \notin Whitespace

\* The non-blank text blocks of a line that is an assistant event, trimmed.
TextsOfAssistant(line) ==
  IF line.json /\ line.type = "assistant" /\ line.message.content.k = "list"
  THEN LET blocks ==
             SelectSeq(line.message.content.items, IsNonBlankTextBlock)
       IN  [i \in 1..Len(blocks) |-> strip(blocks[i].text)]
  ELSE <<>>

Chars(text) == {text[i] : i \in 1..Len(text)}

\* C14: the assistant_messages of the Exchange are the non-blank text
\* blocks (trimmed) of the assistant events after the selected user event,
\* in file order, and neither they nor user_message hold a character of a
\* tool payload.
C14_AssistantTextOnly ==
  (call.fn = "parse_transcript_backwards" /\ call.output.k = "exchange") =>
    LET lines == call.input.lines
        user == LastUserText(lines)
        out == call.output
    IN  /\ out.assistant_messages =
             Flatten([j \in 1..(Len(lines) - user) |->
                        TextsOfAssistant(lines[user + j])])
        /\ Chars(out.user_message) \cap Chars(payload) = {}
        /\ \A i \in 1..Len(out.assistant_messages) :
             Chars(out.assistant_messages[i]) \cap Chars(payload) = {}

\* A user event with a tool result beside its text, an assistant event with
\* a tool call only, an assistant event with text around a tool call: the
\* two texts are returned.
C14_Witness ==
  /\ call.fn = "parse_transcript_backwards"
  /\ call.input.exists
  /\ Len(call.input.lines) = 3
  /\ call.input.lines[2].type = "assistant"
  /\ TextsOfAssistant(call.input.lines[2]) = <<>>
  /\ call.output.k = "exchange"
  /\ call.output.user_message = yo \o <<NL>> \o hi
  /\ call.output.assistant_messages = <<ok, yo>>

\* A transcript without the lines that are no JSON.
WithoutMalformed(file) ==
  [file EXCEPT !.lines = SelectSeq(file.lines, LAMBDA line : line.json)]

\* C15: extraction does not raise on a transcript with lines that are no
\* JSON, and returns what it returns on the transcript without them.
C15_MalformedLinesSkipped ==
  call.fn = "parse_transcript_backwards" =>
    /\ call.output.k # "raise"
    /\ call.output = parse_transcript_backwards(WithoutMalformed(call.input))

\* A line that is no JSON stands between the user event and the assistant
\* event; both are extracted.
C15_Witness ==
  /\ call.fn = "parse_transcript_backwards"
  /\ call.input.exists
  /\ Len(call.input.lines) = 3
  /\ HasUserText(call.input.lines[1])
  /\ call.input.lines[2] = MalformedLine
  /\ call.output.k = "exchange"
  /\ call.output.user_message = hi
  /\ call.output.assistant_messages = <<ok, yo>>

\* The response holds an opening marker with a closing marker after it.
HasPair(response) ==
  \E i \in 1..Len(response), j \in 1..Len(response) :
    i < j /\ response[i] = OPEN /\ response[j] = CLOSE

\* What stands between the markers, trimmed.
PairContent(response) == strip(MemorablesMatch(response)[1])

IsSentinel(content) == content = <<>> \/ lower(content) \in Sentinels

\* C16: parse_memorables returns the empty list for a response without the
\* pair of markers, and for one whose trimmed content is empty or, ignoring
\* letter case, a sentinel.
C16_NothingFromNoPairOrSentinel ==
  (/\ call.fn = "parse_memorables"
   /\ ~HasPair(call.input) \/ IsSentinel(PairContent(call.input))) =>
    call.output = <<>>

\* "<memorables> None\n</memorables>" yields the empty list.
C16_Witness ==
  /\ call.fn = "parse_memorables"
  /\ call.input = <<OPEN, " ", "N", "o", "n", "e", NL, CLOSE>>
  /\ call.output = <<>>

IsBullet(line) ==
  startswith(line, <<"-", " ">>) \/ startswith(line, <<"*", " ">>)

\* A line trimmed, without its one leading bullet marker, trimmed.
Unbulleted(rawline) ==
  LET line == strip(rawline)
  IN  IF IsBullet(line) THEN strip(SubSeq(line, 3, Len(line))) ELSE line

\* The lines of a content as C17 has them: trimmed, without the marker,
\* the empty ones dropped.
LinesAsClaimed(content) ==
  LET lines == split(content, NL)
  IN  SelectSeq([i \in 1..Len(lines) |-> Unbulleted(lines[i])], NonEmpty)

\* An unbulleted line that starts with "<".
IsMarkupLine(rawline) ==
  ~IsBullet(strip(rawline)) /\ StartsWithLt(strip(rawline))

\* The same without the unbulleted lines that start with "<".
LinesWithoutMarkup(content) ==
  LET lines == SelectSeq(split(content, NL), LAMBDA l : ~IsMarkupLine(l))
  IN  SelectSeq([i \in 1..Len(lines) |-> Unbulleted(lines[i])], NonEmpty)

\* C17 as claimed: for a content that is no sentinel parse_memorables
\* returns the content's lines in order, each trimmed and without its one
\* leading bullet marker, the empty ones dropped.
C17_LinesInOrder ==
  (/\ call.fn = "parse_memorables"
   /\ HasPair(call.input)
   /\ ~IsSentinel(PairContent(call.input))) =>
    call.output = LinesAsClaimed(PairContent(call.input))

\* C17 as amended: the same, the unbulleted lines that start with "<"
\* dropped as well.
C17_LinesInOrderWithoutMarkup ==
  (/\ call.fn = "parse_memorables"
   /\ HasPair(call.input)
   /\ ~IsSentinel(PairContent(call.input))) =>
    call.output = LinesWithoutMarkup(PairContent(call.input))

\* The lines "-  a ", "", "<b" and " c" yield a and c.
C17_Witness ==
  /\ call.fn = "parse_memorables"
  /\ call.input =
       <<OPEN, "-", " ", " ", "a", " ", NL, NL, "<", "b", NL, " ", "c", CLOSE>>
  /\ call.output = << <<"a">>, <<"c">> >>

\* What r.get returned is no key, an empty string or blanks only.
IsBlankBlob(memorables) ==
  \/ memorables = <<>>
  \/ \A i \in 1..Len(memorables[1]) : memorables[1][i] \in Whitespace

\* The text is the reminder's frame with exactly this content in it.
CarriesExactly(text, content) ==
  \E i \in 1..Len(text) :
    /\ SubSeq(text, i, i + Len(content) - 1) = content
    /\ SubSeq(text, 1, i - 1) \o SubSeq(text, i + Len(content), Len(text))
         = subvox_reminder(<<>>)

\* C18: an invocation that reached the store has read the blob as it was;
\* it has printed nothing when there was no key (never set, or expired), an
\* empty string or blanks only, and otherwise the reminder with the blob's
\* content, every character of it, in it.
C18_ReminderCarriesTheBlob ==
  /\ []((prompt.pc = "done" /\ prompt.up) =>
          IF IsBlankBlob(prompt.read) THEN prompt.stdout = <<>>
          ELSE CarriesExactly(prompt.stdout, prompt.read[1]))
  /\ [][(prompt' # prompt /\ prompt'.up) =>
          prompt'.read = stm_memorables]_vars

\* The blob " - a\n" has been read and printed with its blanks.
C18_Witness ==
  /\ prompt.pc = "done"
  /\ prompt.up
  /\ prompt.read = << <<" ", "-", " ", "a", NL>> >>
  /\ prompt.exit = "reminded"
  /\ CarriesExactly(prompt.stdout, <<" ", "-", " ", "a", NL>>)

\* C19: a step of the reminder reader leaves the buffer, the blob and both
\* TTLs as they are, whatever stdin holds and whether or not the store
\* answers.
C19_ReaderNeverMutates ==
  [][prompt' # prompt => UNCHANGED stm_vars]_vars

\* The reader, given invalid input, has printed the blob; buffer and blob
\* are there with the TTLs they had.
C19_Witness ==
  /\ prompt.exit = "reminded"
  /\ prompt.input = "invalid_json"
  /\ stm_memorables = prompt.read
  /\ stm_memorables_ttl = STM_TTL
  /\ stm_messages # <<>>
  /\ stm_messages_ttl = STM_TTL

\* C20: an invocation that found the store unavailable has ended by the
\* handled return and has printed nothing.
C20_StoreUnavailableEmitsNothing ==
  (prompt.pc = "done" /\ ~prompt.up) =>
    /\ prompt.exit = "store_error"
    /\ prompt.stdout = <<>>

\* The store did not answer while the blob held lines: nothing was printed.
C20_Witness ==
  /\ prompt.pc = "done"
  /\ ~prompt.up
  /\ prompt.exit = "store_error"
  /\ prompt.stdout = <<>>
  /\ stm_memorables = << <<"-", " ", "a", NL, "-", " ", "b">> >>

\* The invocation holds the conversation it built from the buffer.
HoldsConversation(p) == hook[p].pc \in {"get", "template", "ask"}

Separator == <<NL, NL, "-", "-", "-", NL, NL>>

\* -------------------------------------------------------------------- C21

\* EMPTY: neither the buffer nor the blob exists.
StoreEmpty == stm_messages = <<>> /\ stm_memorables = <<>>

\* No invocation starts and none takes a step.
NoInvocationStep == UNCHANGED hook

\* C21 as claimed: the store starts EMPTY, and once no invocation takes a
\* step any more, the passing of time leaves the store EMPTY for good.
C21_ExpiryLeavesEmpty ==
  StoreEmpty /\ (<>[][NoInvocationStep]_vars => <>[]StoreEmpty)

\* -------------------------------------------------------------------- C22

\* The invocation of session p has appended its exchange.
Pushed(p) == "lpush" \in Commands(p)

\* The place of session p's entry in the buffer, the head being 1.
PlaceInBuffer(p) ==
  CHOOSE i \in 1..Len(stm_messages) :
    stm_messages[i] = json_dumps(hook[p].exchange)

\* The text holds the part.
Contains(text, part) ==
  \E i \in 1..(Len(text) - Len(part) + 1) :
    SubSeq(text, i, i + Len(part) - 1) = part

\* The blobs the sessions' invocations have written.
BlobsWritten ==
  {clean_memorables(hook[q].parsed_memorables) :
     q \in {r \in Sessions : hook[r].exit = "updated"}}

\* C22: the sessions' invocations append to one buffer, which holds the
\* exchange of every session that appended; the conversation an invocation
\* built holds the exchange of the other session whenever that one was
\* appended before its own; the one blob holds the items of the session
\* that wrote last; what an invocation read as existing memorables, and
\* what the reminder reader prints, was written by whichever session.
C22_SessionsShareBufferAndBlob ==
  /\ Len(stm_messages) = Cardinality({p \in Sessions : Pushed(p)})
  /\ \A p \in Sessions : Pushed(p) =>
       \E i \in 1..Len(stm_messages) :
         stm_messages[i] = json_dumps(hook[p].exchange)
  /\ \A p \in Sessions, q \in Sessions :
       (/\ p # q
        /\ HoldsConversation(p)
        /\ Pushed(q)
        /\ PlaceInBuffer(q) > PlaceInBuffer(p)) =>
         Contains(hook[p].conversation, format_exchange(hook[q].exchange))
  /\ stm_memorables # <<>> => stm_memorables[1] \in BlobsWritten
  /\ \A p \in Sessions :
       hook[p].existing_memorables # <<>> =>
         hook[p].existing_memorables \in
           {clean_memorables(hook[q].parsed_memorables) :
              q \in {r \in Sessions : r # p /\ hook[r].exit = "updated"}}
  /\ prompt.stdout # <<>> =>
       \E b \in BlobsWritten : prompt.stdout = Reminder(<<b>>)

\* Session 2 appended "yo" and wrote its items; session 1 then appended
\* "hi": its conversation holds "yo" before "hi", its existing memorables
\* are session 2's items, and so is the reminder.
C22_Witness ==
  /\ hook[2].exit = "updated"
  /\ hook[1].pc = "ask"
  /\ hook[1].conversation =
       format_exchange(Exchange(yo, <<ok>>)) \o Separator
       \o format_exchange(Exchange(hi, <<ok>>))
  /\ hook[1].existing_memorables =
       clean_memorables(hook[2].parsed_memorables)
  /\ stm_memorables = <<hook[1].existing_memorables>>
  /\ prompt.stdout = Reminder(stm_memorables)

\* -------------------------------------------------------------------- C23

CanaryPrinted ==
  \E i \in 1..Len(call.output.stdout) :
    call.output.stdout[i] = CORTEX_STORE_SUCCESS_QUACK

CliDone == call.fn = "store" /\ call.output.pc = "done"

\* C23: the canary is printed only when the service has answered 201, and
\* then the command exits with 0; a command that got an error status, or
\* could not connect, has printed no canary and exits with 1; a command
\* without content exits with 1 and has called nothing.
C23_CanaryOnlyAfterSuccess ==
  call.fn = "store" =>
    /\ CanaryPrinted =>
         /\ last_store.status = "201"
         /\ call.output.pc = "done"
         /\ call.output.exit_code = 0
    /\ (CliDone /\ last_store.status \notin {"", "201"}) =>
         ~CanaryPrinted /\ call.output.exit_code = 1
    /\ (CliDone /\ call.output.posted /\ ~call.output.sent) =>
         /\ ~CanaryPrinted
         /\ call.output.exit_code = 1
         /\ last_store = NoStore
    /\ CliContent(call.input) = <<>> =>
         /\ CliDone
         /\ call.output.exit_code = 1
         /\ ~call.output.posted
         /\ last_store = NoStore
         /\ db_memories = <<>>

\* The content came from stdin, the service stored it and answered 201:
\* the canary is the last line printed.
C23_Witness ==
  /\ CliDone
  /\ call.input.content = Argument(<<"-">>)
  /\ CliContent(call.input) = <<"m", "2">>
  /\ last_store.status = "201"
  /\ Len(db_memories) = 1
  /\ db_memories[1].content = <<"m", "2">>
  /\ call.output.exit_code = 0
  /\ call.output.stdout[Len(call.output.stdout)] = CORTEX_STORE_SUCCESS_QUACK

\* -------------------------------------------------------------------- C24

Forgotten == {row \in Rows(db_memories) : row.forgotten}

\* What every read operation may return, forgotten rows not asked for.
ReadResults ==
  UNION {search_memories(q, limit, FALSE, exact, after, before) :
           q \in StoreContents, limit \in 1..(MaxMem + 1), exact \in BOOLEAN,
           after \in 0..MaxMem, before \in 0..(MaxMem + 1)}
  \cup {get_recent_memories(limit, cutoff) :
          limit \in 1..(MaxMem + 1), cutoff \in 0..MaxMem}
  \cup {get_vectors(limit) : limit \in 1..(MaxMem + 1)}

\* No read operation returns a forgotten row, and the health count counts
\* none; a search that includes the forgotten ones returns them.
ForgottenNeverRead ==
  /\ \A result \in ReadResults : result \cap Forgotten = {}
  /\ health_check = Cardinality(Rows(db_memories)) - Cardinality(Forgotten)
  /\ \A row \in Forgotten :
       {row} \in search_memories(row.content, 1, TRUE, TRUE, row.id, row.id + 1)

\* A forget answers true exactly when the id is the one of a row that is
\* not forgotten, and then marks that row and no other; it answers false
\* otherwise and changes no row.
ForgetIsSoftDelete ==
  (/\ call'.fn = "forget_memory"
   /\ \/ call.fn # "forget_memory"
      \/ call.input # call'.input
      \/ call.output # call'.output) =>
    LET live == {i \in 1..Len(db_memories) :
                   db_memories[i].id = call'.input /\ ~db_memories[i].forgotten}
    IN  /\ call'.output = (live # {})
        /\ Len(db_memories') = Len(db_memories)
        /\ \A i \in 1..Len(db_memories) :
             db_memories'[i] =
               IF i \in live THEN [db_memories[i] EXCEPT !.forgotten = TRUE]
               ELSE db_memories[i]

\* C24: forgetting is a soft delete, and no read operation returns a
\* forgotten memory unless the search asks for them.
C24_ForgetIsSoftDelete ==
  []ForgottenNeverRead /\ [][ForgetIsSoftDelete]_vars

\* Memory 1 was forgotten, and forgotten again: the second answer is false,
\* the row is still there, and memory 2 is the only one that is read.
C24_Witness ==
  /\ call.fn = "forget_memory"
  /\ call.input = 1
  /\ ~call.output
  /\ Len(db_memories) = 2
  /\ db_memories[1].forgotten
  /\ ~db_memories[2].forgotten
  /\ health_check = 1
  /\ get_recent_memories(2, 0) = {db_memories[2]}

\* -------------------------------------------------------------------- C25

\* C25 as claimed: get-by-id answers 200 with the row of that id when there
\* is one, and 404 when there is none.
C25_GetReturnsTheMemory ==
  call.fn = "get_memory_by_id" =>
    LET found == {row \in Rows(db_memories) : row.id = call.input}
    IN  IF found = {} THEN call.output.status = "404"
        ELSE call.output.status = "200" /\ call.output.memory = found

\* -------------------------------------------------------------------- C26

\* The lines of a transcript that are user events, with text or without.
UserEventLines(lines) ==
  {i \in 1..Len(lines) : lines[i].json /\ lines[i].type = "user"}

\* The first user event after line i; the line after the last one when
\* there is none.
NextUserEvent(lines, i) ==
  LET later == {j \in UserEventLines(lines) : j > i}
  IN  IF later = {} THEN Len(lines) + 1
      ELSE CHOOSE j \in later : \A k \in later : j <= k

\* The last user event of a transcript that has one.
LastUserEvent(lines) ==
  CHOOSE i \in UserEventLines(lines) : \A j \in UserEventLines(lines) : j <= i

\* The assistant text of the lines from..to, in file order.
AssistantTextOf(lines, from, to) ==
  Flatten([j \in 1..(to - from + 1) |-> TextsOfAssistant(lines[from + j - 1])])

\* C26 as claimed: the assistant_messages of the Exchange are the assistant
\* text between the selected user event and the next user event (or the end
\* of the file), and no text after that user event.
C26_EndsAtNextUserEvent ==
  (call.fn = "parse_transcript_backwards" /\ call.output.k = "exchange") =>
    LET lines == call.input.lines
        user == LastUserText(lines)
    IN  call.output.assistant_messages =
          AssistantTextOf(lines, user + 1, NextUserEvent(lines, user) - 1)

\* C26 as amended: the collection ends at the end of the file only; the
\* assistant_messages are the assistant text up to the last user event
\* followed by the assistant text after it.
C26_EndsAtEndOfFile ==
  (call.fn = "parse_transcript_backwards" /\ call.output.k = "exchange") =>
    LET lines == call.input.lines
        user == LastUserText(lines)
        last == LastUserEvent(lines)
    IN  call.output.assistant_messages =
          AssistantTextOf(lines, user + 1, last)
          \o AssistantTextOf(lines, last + 1, Len(lines))

\* A user event with text, a tool-result-only user event, an assistant
\* event with text: the text is in the Exchange.
C26_Witness ==
  /\ call.fn = "parse_transcript_backwards"
  /\ call.input.exists
  /\ Len(call.input.lines) = 3
  /\ call.input.lines[1] = Event("user", StrContent(hi))
  /\ call.input.lines[2] = Event("user", ListContent(<<ToolResultWith(payload)>>))
  /\ call.input.lines[3].type = "assistant"
  /\ call.output = Exchange(hi, <<ok, yo>>)

\* -------------------------------------------------------------------- C27

\* The entries of a buffer, last one first, formatted and joined.
OldestFirst(buffer) ==
  join(Separator,
       [i \in 1..Len(buffer) |-> format_exchange(buffer[Len(buffer) + 1 - i])])

\* C27: the newest entry stands at the head of the buffer (the store
\* prepends), and the conversation built from a buffer lists its entries
\* from the last one to the head: oldest first.
C27_ConversationOldestFirst ==
  \A p \in Hooks :
    /\ (hook[p].pc = "expire" /\ stm_messages # <<>>) =>
         Head(stm_messages) = json_dumps(hook[p].exchange)
    /\ (HoldsConversation(p) /\ stm_messages # <<>>) =>
         hook[p].conversation = OldestFirst(stm_messages)

\* "hi" was appended before "yo": the conversation has "hi" first.
C27_Witness ==
  \E p \in Hooks :
    /\ HoldsConversation(p)
    /\ stm_messages = <<json_dumps(Exchange(yo, <<ok>>)),
                        json_dumps(Exchange(hi, <<ok>>))>>
    /\ hook[p].exchange = Exchange(yo, <<ok>>)
    /\ hook[p].conversation =
         format_exchange(Exchange(hi, <<ok>>)) \o Separator
         \o format_exchange(Exchange(yo, <<ok>>))

\* -------------------------------------------------------------------- C28

\* The text ends with the suffix.
endswith(text, suffix) ==
  /\ Len(suffix) <= Len(text)
  /\ SubSeq(text, Len(text) - Len(suffix) + 1, Len(text)) = suffix

\* The number of exchanges a conversation text lists.
ExchangesIn(text) == Cardinality({i \in 1..Len(text) : text[i] = "Jeffery: "})

\* The place of a command among the commands of an invocation; 0: not sent.
CommandIndex(p, command) ==
  IF command \in Commands(p)
  THEN CHOOSE i \in 1..Len(hook[p].commands) : hook[p].commands[i] = command
  ELSE 0

IsExchangeEntry(entry) == entry.valid /\ ~FormatExchangeRaises(entry)

\* C29 as claimed: whatever entries the buffer holds, the conversation is
\* built, and it is the one of the buffer without the entries that are no
\* Exchange, oldest first.
C29_CorruptEntriesSkipped ==
  call.fn = "build_conversation_from_stm" =>
    /\ call.output.k = "ok"
    /\ call.output.text = OldestFirst(SelectSeq(call.input, IsExchangeEntry))

\* -------------------------------------------------------------------- C30

\* C30 as claimed: no item parse_memorables returns begins with "<".
C30_NoItemStartsWithLt ==
  call.fn = "parse_memorables" =>
    \A i \in 1..Len(call.output) : ~StartsWithLt(call.output[i])

\* -------------------------------------------------------------------- C31

\* A blob next to a buffer that is gone.
BlobAlone == stm_memorables # <<>> /\ stm_messages = <<>>

\* Invocation and clear have finished.
AllFinished ==
  /\ \A p \in Hooks : hook[p].pc \in {"idle", "done"}
  /\ inbox = <<>>

\* C31 as claimed: once the invocation and the clear have finished, the
\* store holds no blob next to an empty buffer.
C31_NoBlobAfterFlush == AllFinished => ~BlobAlone

\* C31 as amended: an invocation that parsed items writes them as the blob
\* whatever the buffer holds; a blob comes to stand alone by that write
\* only, on a buffer that was cleared after the invocation's append; a
\* clear leaves no blob.
C31_BlobReappearsOnlyByLateWrite ==
  [][/\ \A p \in Hooks :
          (hook[p].pc = "set" /\ hook'[p].exit = "updated") =>
            stm_memorables' = <<clean_memorables(hook[p].parsed_memorables)>>
     /\ (BlobAlone' /\ ~BlobAlone) =>
          \E p \in Hooks :
            /\ hook[p].pc = "set"
            /\ hook'[p].exit = "updated"
            /\ "lpush" \in Commands(p)
            /\ stm_messages = <<>>
     /\ Len(inbox') < Len(inbox) => ~BlobAlone']_vars

\* The clear came between the append and the blob write: both have
\* finished, the buffer is empty and the blob holds the items.
C31_Witness ==
  /\ AllFinished
  /\ BlobAlone
  /\ db_memories # <<>>
  /\ \E p \in Hooks :
       /\ hook[p].exit = "updated"
       /\ stm_memorables = <<clean_memorables(hook[p].parsed_memorables)>>

\* -------------------------------------------------------------------- C32

\* The entries of the buffer, as a set.
Buffered == {stm_messages[i] : i \in 1..Len(stm_messages)}

\* C32: once the invocations of both sessions have appended, the buffer
\* holds two entries, the exchange of each; and every append, whenever it
\* comes, leaves the entries that were buffered behind the new one.
C32_NoAppendLost ==
  /\ []((\A p \in Sessions : Pushed(p)) =>
          /\ Len(stm_messages) = Cardinality(Sessions)
          /\ \A p \in Sessions : json_dumps(hook[p].exchange) \in Buffered)
  /\ [][\A p \in Sessions :
          (hook[p].pc = "lpush" /\ hook'[p].pc = "expire") =>
            /\ Head(stm_messages') = json_dumps(hook[p].exchange)
            /\ Tail(stm_messages') = stm_messages]_vars

\* Both invocations have appended and neither has sent its next command:
\* session 1 came second, and both exchanges are buffered.
C32_Witness ==
  /\ hook[1].pc = "expire"
  /\ hook[2].pc = "expire"
  /\ stm_messages = <<json_dumps(Exchange(hi, <<ok>>)),
                      json_dumps(Exchange(yo, <<ok>>))>>

\* -------------------------------------------------------------------- C33

\* C33: while invocations run one after the other and nothing else acts,
\* a blob is there only next to a buffer that holds an entry, and an
\* invocation that wrote the blob had appended before.
C33_BlobImpliesBuffer ==
  /\ stm_memorables # <<>> =>
       /\ stm_memorables[1] # <<>>
       /\ stm_messages # <<>>
  /\ \A p \in Hooks :
       "set" \in Commands(p) =>
         /\ CommandIndex(p, "lpush") = 1
         /\ CommandIndex(p, "lpush") < CommandIndex(p, "set")

\* An invocation has written the blob; the buffer holds its exchange.
C33_Witness ==
  \E p \in Hooks :
    /\ hook[p].exit = "updated"
    /\ stm_memorables = <<clean_memorables(hook[p].parsed_memorables)>>
    /\ stm_messages # <<>>
    /\ Head(stm_messages) = json_dumps(hook[p].exchange)

\* -------------------------------------------------------------------- C34

\* The step is the completed r.lpush of invocation p.
AppendStep(p) == hook[p].pc = "lpush" /\ hook'[p].pc = "expire"

\* C34: the append of an invocation puts its exchange in front of the
\* buffer, which keeps every entry it had, whether or not the same exchange
\* is buffered already; no other step of an invocation changes the buffer.
C34_EveryAppendGrowsByOne ==
  [][/\ \A p \in Hooks :
          AppendStep(p) =>
            /\ Len(stm_messages') = Len(stm_messages) + 1
            /\ stm_messages' = <<json_dumps(hook[p].exchange)>> \o stm_messages
     /\ stm_messages' # stm_messages => \E p \in Hooks : AppendStep(p)]_vars

\* The same exchange was appended by two invocations, the second of which
\* ended without memorables: the buffer holds it twice.
C34_Witness ==
  \E p \in Hooks :
    /\ hook[p].pc = "done"
    /\ hook[p].exit \in {"no_memorables", "no_template", "olmo_failed"}
    /\ Len(stm_messages) = 2
    /\ stm_messages[1] = json_dumps(hook[p].exchange)
    /\ stm_messages[2] = stm_messages[1]

\* -------------------------------------------------------------------- C35

\* No invocation is between its start and its end.
NoInvocationInProgress == \A p \in Hooks : hook[p].pc \in {"idle", "done"}

\* C35 as claimed: while no invocation is in progress, a buffer that
\* exists has a TTL that runs, of at most STM_TTL.
C35_BufferAlwaysHasTtl ==
  (NoInvocationInProgress /\ stm_messages # <<>>) =>
    (stm_messages_ttl > 0 /\ stm_messages_ttl <= STM_TTL)

\* -------------------------------------------------------------------- C36

\* The latest request names a session and the service holds its client.
MayPublish == redis_client /\ last_store.session_id # ""

\* The latest request was answered 201.
Stored == last_store.status = "201"

\* C36 as claimed: a stored request has published exactly once, on the
\* channel of its session, when the service holds its client and the
\* request names a session, and has published nothing otherwise.
C36_PublishedExactlyWhenSessionAndClient ==
  Stored =>
    LET published == EventsWithOp(last_store.events, "publish")
    IN  IF MayPublish
        THEN /\ Len(published) = 1
             /\ CORTEX_STORED_CHANNEL(published[1].arg) =
                  CORTEX_STORED_CHANNEL(last_store.session_id)
        ELSE published = <<>>

\* C36 as amended: a stored request has called publish exactly once, on
\* the channel of its session and with its id, when the service holds its
\* client and the request names a session, and not at all otherwise; the
\* confirmation is published unless that one call fails; a request that is
\* not stored calls publish never.
C36_PublishAttemptedExactlyWhenSessionAndClient ==
  LET attempts == PublishAttempts(last_store.events)
      published == EventsWithOp(last_store.events, "publish")
      failed == EventsWithOp(last_store.events, "publish_failed")
  IN  /\ ~Stored => attempts = <<>>
      /\ (Stored /\ ~MayPublish) => attempts = <<>>
      /\ (Stored /\ MayPublish) =>
           /\ Len(attempts) = 1
           /\ CORTEX_STORED_CHANNEL(attempts[1].arg) =
                CORTEX_STORED_CHANNEL(last_store.session_id)
           /\ attempts[1].id = last_store.id
           /\ Len(published) + Len(failed) = 1

\* A request of session s2 was stored by a service that holds its client:
\* one publish, on the channel of s2.
C36_Witness ==
  /\ Stored
  /\ redis_client
  /\ last_store.session_id = "s2"
  /\ EventsWithOp(last_store.events, "publish") =
       <<[op |-> "publish", id |-> last_store.id, arg |-> "s2"]>>

\* -------------------------------------------------------------------- C37

\* C37: extraction is total over the contents of an existing file: whatever
\* its lines hold, it returns an Exchange or no exchange and never raises.
C37_ExtractionIsTotal ==
  (call.fn = "parse_transcript_backwards" /\ call.input.exists) =>
    call.output.k \in {"none", "exchange"}

=============================================================================
